---- MODULE Spec2Model ----
(***************************************************************************)
(* The agent-task orchestration queue of server/services/orchestrator      *)
(* (the OrchestratorQueue class at the end of src/server/routes.ts).       *)
(*                                                                         *)
(* One action of the model is one continuation of the JavaScript code: the *)
(* completion of an awaited collaborator call together with the            *)
(* synchronous code that follows it up to the next await.  enqueue() and   *)
(* the setTimeout callback are synchronous and include the synchronous     *)
(* prefix of processQueue()/executeTask().                                 *)
(***************************************************************************)
EXTENDS Integers, Sequences, FiniteSets, TLC

\* ------------------------------------------------------ program constants
concurrency == 2     \* private concurrency = 2

\* ---------------------------------------------------------------- bounds
MaxTasks == 4        \* submissions explored (queue specification)
MaxFaults == 2       \* collaborator calls that throw, missing rows
MaxAttempts == 2     \* onAttempt callbacks made by the retry orchestrator
MaxCalls == 2        \* provider adapter calls explored (adapter specification)
MaxInvocations == 3  \* callWithRetry invocations explored (circuit specification)
MaxTime == 1         \* clock ticks explored (circuit specification)
MaxAdminCalls == 1   \* requests to the circuit routes explored
MaxConnections == 3  \* stream connections explored (stream specification)
MaxEvents == 2       \* log events explored (stream specification)
MaxFixes == 2        \* failure-handler invocations explored (auto-fix specification)

\* The pipeline specifications (Spec, SpecRetry) submit one task per
\* execution slot.
PipeTasks == concurrency

RunIds == 1..MaxTasks

Terminal == {"completed", "failed", "cancelled"}

VARIABLES
    queue,          \* OrchestratorQueue.queue: backlog of runIds
    processing,     \* OrchestratorQueue.processing
    activeCount,    \* OrchestratorQueue.activeCount
    stepCounters,   \* OrchestratorQueue.stepCounters (0 = absent)
    timers,         \* pending setTimeout(() => processQueue(), 100) callbacks
    nextRun,        \* id of the next Run the routes will create
    pc,             \* per task: the await its pipeline is suspended at
    runStatus,      \* storage: agent_runs.status ("none" = no such row)
    traces,         \* storage: decision traces persisted, per run
    logs,           \* "log" events emitted, per run (types only)
    messages,       \* storage: messages persisted, per run (roles only)
    response,       \* what retryService.callWithRetry returned, per run
    retryStep,      \* executeTask's local retryStep, per run
    costCalls,      \* trackCost invocations, per run
    usageRecords,   \* storage: usage records, per run
    usageProvider,  \* storage: the provider the run's usage record names
    orgFound,       \* what storage.getOrg answered for the run (history)
    auditLogs,      \* storage: audit log rows, per run
    started,        \* admission order (history)
    thrown,         \* why executeTask threw, per run (history)
    catchThrew,     \* the catch handler's updateAgentRun threw (history)
    crashed,        \* the Node process was terminated by an unhandled rejection
    lostTraces,     \* createDecisionTrace failures swallowed, per run (history)
    onAttempts,     \* onAttempt callbacks made, per run, in order (history)
    output,         \* storage: agent_runs.outputJson, per run
    lastResponse,   \* HTTP status the routes answered the last submission with
    cancelRequested,\* the status a run had when its cancellation was requested
                    \* ("no" = not requested; history)
    overBudget,     \* the run's organisation had exceeded its budget when the
                    \* run was created (history)
    runsLeft,       \* submissions still to be explored
    faultsLeft,     \* faults still to be injected
    attemptsLeft,   \* onAttempt callbacks still to be explored
    adapterCall,    \* the provider adapter call in progress and the await it is at
    adapterResults, \* how the adapter calls made so far ended (history)
    callsLeft,      \* adapter calls still to be explored
    circuits,       \* retryService: CircuitState per provider
    now,            \* the clock the cooldowns are measured on
    callers,        \* callWithRetry invocations in progress, per execution slot
    callbacks,      \* onAttempt callbacks of the slot's invocation, in order (history)
    lastAdmin,      \* the request the circuit routes answered in the last step
                    \* (report: the circuit status sent, if any)
    invocationsLeft,\* callWithRetry invocations still to be explored
    adminLeft,      \* requests to the circuit routes still to be explored
    \* log streaming (server/routes.ts, sseConnections)
    sseConnections, \* the Map: per runId the connection registered, 0 = no entry
    connections,    \* the stream connections opened so far, in opening order
    streamsLeft,    \* stream requests still to be explored
    eventsLeft,     \* log events still to be explored
    \* failure handler (attemptAutoFix)
    fix,            \* the invocation of handleFailure / attemptAutoFix in progress
    fixesLeft       \* invocations still to be explored

vars == <<queue, processing, activeCount, stepCounters, timers, nextRun, pc,
          runStatus, traces, logs, messages, response, retryStep, costCalls,
          usageRecords, auditLogs, started, thrown, catchThrew, crashed,
          lostTraces, onAttempts, output, lastResponse, cancelRequested,
          overBudget, usageProvider, orgFound, runsLeft, faultsLeft, attemptsLeft, adapterCall, adapterResults, callsLeft, circuits, now,
          callers, callbacks, lastAdmin, invocationsLeft, adminLeft,
          sseConnections, connections, streamsLeft, eventsLeft, fix, fixesLeft>>

adapterVars == <<adapterCall, adapterResults, callsLeft>>
requestVars == <<cancelRequested, overBudget>>
usageVars == <<usageProvider, orgFound>>
streamVars == <<sseConnections, connections, streamsLeft, eventsLeft>>
autofixVars == <<fix, fixesLeft>>
serviceVars == <<streamVars, autofixVars>>
circuitVars == <<circuits, now, callers, callbacks, lastAdmin, invocationsLeft,
                 adminLeft>>
orchestratorVars == <<queue, processing, activeCount, stepCounters, timers, nextRun, pc,
                      runStatus, traces, logs, messages, response, retryStep,
                      costCalls, usageRecords, auditLogs, started, thrown,
                      catchThrew, crashed, lostTraces, onAttempts, output,
                      lastResponse, cancelRequested, overBudget, usageProvider,
                      orgFound, runsLeft, faultsLeft, attemptsLeft>>

\* every variable of the queue and its pipelines but the fault budget
pipelineVars == <<queue, processing, activeCount, stepCounters, timers, nextRun, pc,
                  runStatus, traces, logs, messages, response, retryStep,
                  costCalls, usageRecords, auditLogs, started, thrown,
                  catchThrew, crashed, lostTraces, onAttempts, output,
                  lastResponse, cancelRequested, overBudget, usageProvider,
                  orgFound, runsLeft, attemptsLeft>>

queueVars == <<queue, processing, activeCount, timers, nextRun, started, runsLeft,
               crashed>>
storeVars == <<runStatus, messages, usageRecords, auditLogs>>

NoResponse == [returned |-> FALSE, success |-> FALSE, cost |-> 0,
               usedProvider |-> "none", attempts |-> 0]

\* outputJson: null as created by the routes
NoOutput == [kind |-> "null", usedProvider |-> "none", attempts |-> 0]

InitWith(runs, faults, attempts) ==
    /\ queue = <<>>
    /\ processing = FALSE
    /\ activeCount = 0
    /\ stepCounters = [t \in RunIds |-> 0]
    /\ timers = 0
    /\ nextRun = 1
    /\ pc = [t \in RunIds |-> "idle"]
    /\ runStatus = [t \in RunIds |-> "none"]
    /\ traces = [t \in RunIds |-> <<>>]
    /\ logs = [t \in RunIds |-> <<>>]
    /\ messages = [t \in RunIds |-> <<>>]
    /\ response = [t \in RunIds |-> NoResponse]
    /\ retryStep = [t \in RunIds |-> 0]
    /\ costCalls = [t \in RunIds |-> 0]
    /\ usageRecords = [t \in RunIds |-> 0]
    /\ usageProvider = [t \in RunIds |-> "none"]
    /\ orgFound = [t \in RunIds |-> "unasked"]
    /\ auditLogs = [t \in RunIds |-> 0]
    /\ started = <<>>
    /\ thrown = [t \in RunIds |-> "none"]
    /\ catchThrew = [t \in RunIds |-> FALSE]
    /\ crashed = FALSE
    /\ lostTraces = [t \in RunIds |-> 0]
    /\ onAttempts = [t \in RunIds |-> <<>>]
    /\ output = [t \in RunIds |-> NoOutput]
    /\ lastResponse = 0
    /\ cancelRequested = [t \in RunIds |-> "no"]
    /\ overBudget = [t \in RunIds |-> FALSE]
    /\ runsLeft = runs
    /\ faultsLeft = faults
    /\ attemptsLeft = attempts

\* no provider adapter call is in progress
IdleCall == [at |-> "idle", adapter |-> "none", hasKey |-> FALSE, requests |-> 0]

AdaptersIdle(calls) ==
    /\ adapterCall = IdleCall
    /\ adapterResults = <<>>
    /\ callsLeft = calls

\* the providers of the fallback chain the circuit specification explores:
\* the primary provider, then its configured fallback
Chain == <<"openai", "anthropic">>
CircuitProviders == {Chain[i] : i \in 1..Len(Chain)}

\* the callWithRetry invocations in progress, one per execution slot
Slots == 1..concurrency

\* a circuit as created, and as resetCircuit leaves it
ClosedCircuit == [state |-> "closed", consecutiveFailures |-> 0, cooldownUntil |-> 0]

\* no callWithRetry invocation is in progress in the slot
IdleCaller == [at |-> "idle", idx |-> 1, trial |-> FALSE,
               calls |-> [p \in CircuitProviders |-> 0],
               outcome |-> [p \in CircuitProviders |-> "untried"],
               pending |-> "none", found |-> "none",
               success |-> FALSE, usedProvider |-> "none"]

NoAdmin == [route |-> "none", role |-> "none", status |-> 0, target |-> "none",
            report |-> {}]

CircuitsIdle(invocations, requests) ==
    /\ circuits = [p \in CircuitProviders |-> ClosedCircuit]
    /\ now = 0
    /\ callers = [c \in Slots |-> IdleCaller]
    /\ callbacks = [c \in Slots |-> <<>>]
    /\ lastAdmin = NoAdmin
    /\ invocationsLeft = invocations
    /\ adminLeft = requests

\* The pipeline specification (Spec) explores every pattern of faults around
\* one retry callback.
\* the runIds the stream requests and the log events carry
StreamRuns == {1, 2}

\* no stream connection was opened yet
StreamsIdle(streams, events) ==
    /\ sseConnections = [r \in StreamRuns |-> 0]
    /\ connections = <<>>
    /\ streamsLeft = streams
    /\ eventsLeft = events

\* what attemptAutoFix resolved with: nothing yet
NoResult == [kind |-> "none", success |-> FALSE, escalated |-> FALSE,
             issueUrl |-> FALSE, error |-> "none"]

\* no failure is being handled
IdleFix == [at |-> "idle", entry |-> "none", canAutoFix |-> FALSE,
            fixDifficulty |-> "none", calls |-> <<>>, audits |-> <<>>,
            level1 |-> NoResult, level2 |-> NoResult, result |-> NoResult]

AutoFixIdle(fixes) ==
    /\ fix = IdleFix
    /\ fixesLeft = fixes

\* the services outside the queue are idle and stay so
ServicesIdle == StreamsIdle(0, 0) /\ AutoFixIdle(0)

Init == InitWith(PipeTasks, MaxFaults, 1) /\ AdaptersIdle(0) /\ CircuitsIdle(0, 0) /\ ServicesIdle

\* The retry specification (SpecRetry) explores every sequence of retry and
\* fallback callbacks around one fault.
InitRetry == InitWith(PipeTasks, 1, MaxAttempts) /\ AdaptersIdle(0) /\ CircuitsIdle(0, 0) /\ ServicesIdle

\* The queue specification (SpecQueue) explores the longest backlog: every
\* collaborator call returns, pipelines end by provider success or provider
\* exhaustion, and the orchestrator makes one retry callback.
InitQueue == InitWith(MaxTasks, 0, 1) /\ AdaptersIdle(0) /\ CircuitsIdle(0, 0) /\ ServicesIdle

\* The adapter specification (SpecAdapter) explores the provider adapters on
\* their own: the queue reaches them only through the retry orchestrator.
InitAdapter == InitWith(0, 0, 0) /\ AdaptersIdle(MaxCalls) /\ CircuitsIdle(0, 0) /\ ServicesIdle

\* The circuit specification (SpecCircuit) explores the retry orchestrator,
\* its circuit registry and the circuit routes on their own, around one
\* trace that fails to persist.
InitCircuit ==
    InitWith(0, 1, 0) /\ AdaptersIdle(0) /\ CircuitsIdle(MaxInvocations, 0) /\ ServicesIdle

\* The fair circuit specification (FairSpecCircuit) explores one
\* callWithRetry invocation per execution slot to its end.
InitPerSlot ==
    InitWith(0, 1, 0) /\ AdaptersIdle(0) /\ CircuitsIdle(concurrency, 0) /\ ServicesIdle

\* The stream specification (SpecStream) explores the log streaming routes
\* on their own: the queue reaches them only through its "log" events.
InitStream ==
    /\ InitWith(0, 0, 0) /\ AdaptersIdle(0) /\ CircuitsIdle(0, 0)
    /\ StreamsIdle(MaxConnections, MaxEvents) /\ AutoFixIdle(0)

\* The auto-fix specification (SpecAutoFix) explores the failure handler on
\* its own.
InitAutoFix ==
    /\ InitWith(0, 0, 0) /\ AdaptersIdle(0) /\ CircuitsIdle(0, 0)
    /\ StreamsIdle(0, 0) /\ AutoFixIdle(MaxFixes)

\* The administration specification (SpecAdmin) explores the circuit routes
\* over one callWithRetry invocation per execution slot, every trace
\* persisting.
InitAdmin ==
    InitWith(0, 0, 0) /\ AdaptersIdle(0) /\ CircuitsIdle(concurrency, MaxAdminCalls) /\ ServicesIdle

\* A collaborator call either returns (ok) or throws; throws are budgeted.
Outcome(ok) == ok \/ faultsLeft > 0
Charge(ok) == faultsLeft' = IF ok THEN faultsLeft ELSE faultsLeft - 1

\* --------------------------------------------------------------- the queue

\* processQueue's guard: `if (this.processing || this.activeCount >= this.concurrency) return`
CanDispatchUnguarded == TRUE
CanDispatch == ~processing /\ activeCount < concurrency

\* this.queue.shift(): the task taken and the backlog left
NextTaskLast(q) == q[Len(q)]
NextTask(q) == Head(q)
RestOfKeeps(q) == q
RestOf(q) == Tail(q)

\* The synchronous prefix of processQueue() on backlog q, with p the pc map at
\* the call: admit one task and run executeTask up to its first await.
ProcessQueue(q, p) ==
    IF CanDispatch /\ q # <<>>
    THEN LET t == NextTask(q) IN
         /\ queue' = RestOf(q)
         /\ activeCount' = activeCount + 1
         /\ processing' = TRUE
         /\ stepCounters' = [stepCounters EXCEPT ![t] = 0]
         /\ pc' = [p EXCEPT ![t] = "getRun"]
         /\ started' = Append(started, t)
    ELSE /\ queue' = q
         /\ pc' = p
         /\ UNCHANGED <<activeCount, processing, stepCounters, started>>

\* enqueue(task): push, the "Task queued" log, processQueue()
Enqueue(t) ==
    /\ logs' = [logs EXCEPT ![t] = Append(@, "info")]
    /\ ProcessQueue(Append(queue, t), [pc EXCEPT ![t] = "queued"])

\* How a submission handler ends: the body fails zod validation, the session
\* has no organization (agent-run route only), the project is missing or
\* belongs to another organization, storage.getProject or
\* storage.createAgentRun throws, or the Run is created and the task enqueued.
Rejections == {"invalid", "noOrg", "noProject", "storageThrew"}
Outcomes == Rejections \cup {"accepted"}

\* res.status(...) of the handler
StatusOf(outcome) ==
    CASE outcome = "accepted" -> 200
      [] outcome = "noProject" -> 404
      [] OTHER -> 400

\* the handler gets as far as storage.createAgentRun({status: "queued"}), which returns
CreatesRun(outcome) == outcome = "accepted"

\* the handler gets as far as orchestratorQueue.enqueue(...)
EnqueuesTaskRegardless(outcome) == TRUE
EnqueuesTask(outcome) == outcome = "accepted"

\* The body shared by the two submission handlers: parse, look the project
\* up, create the Run with status queued, enqueue the task, answer.
SubmitRun(outcome, exceeded) ==
    /\ ~crashed
    /\ runsLeft > 0
    /\ runsLeft' = runsLeft - 1
    /\ Outcome(outcome = "accepted" /\ ~exceeded)
    /\ Charge(outcome = "accepted" /\ ~exceeded)
    /\ lastResponse' = StatusOf(outcome)
    /\ LET t == nextRun IN
       /\ nextRun' = IF CreatesRun(outcome) \/ EnqueuesTask(outcome) THEN t + 1 ELSE t
       /\ runStatus' = IF CreatesRun(outcome)
                       THEN [runStatus EXCEPT ![t] = "queued"]
                       ELSE runStatus
       /\ overBudget' = IF CreatesRun(outcome)
                        THEN [overBudget EXCEPT ![t] = exceeded]
                        ELSE overBudget
       /\ IF EnqueuesTask(outcome)
          THEN Enqueue(t)
          ELSE UNCHANGED <<logs, queue, pc, activeCount, processing, stepCounters,
                           started>>
    /\ UNCHANGED <<serviceVars, adapterVars, circuitVars, cancelRequested, usageVars, timers, crashed, traces,
                   messages, response, retryStep, costCalls,
                   usageRecords, auditLogs, thrown, catchThrew, lostTraces,
                   onAttempts, output, attemptsLeft>>

\* checkBudget(req, res, next) lets the request through to the handler
CheckBudget(exceeded) == ~exceeded

\* the status checkBudget answers a blocked request with
BudgetExceededStatus == 402

\* checkBudget answers the request itself: the handler does not run
BudgetBlocks ==
    /\ ~crashed
    /\ runsLeft > 0 /\ faultsLeft > 0
    /\ runsLeft' = runsLeft - 1
    /\ faultsLeft' = faultsLeft - 1
    /\ lastResponse' = BudgetExceededStatus
    /\ UNCHANGED <<serviceVars, adapterVars, circuitVars, requestVars, usageVars, queue, processing, activeCount,
                   stepCounters, timers, nextRun, pc, runStatus, traces, logs,
                   messages, response, retryStep, costCalls, usageRecords,
                   auditLogs, started, thrown, catchThrew, crashed, lostTraces,
                   onAttempts, output, attemptsLeft>>

\* POST /api/agents/run (requireAuth, agentLimiter, checkBudget)
PostAgentsRun(outcome, exceeded) ==
    IF CheckBudget(exceeded)
    THEN SubmitRun(outcome, exceeded)
    ELSE outcome = "accepted" /\ BudgetBlocks

\* POST /api/zapier/trigger (validateApiKey): the organization comes with the
\* API key
PostZapierTrigger(outcome, exceeded) ==
    outcome # "noOrg" /\ SubmitRun(outcome, exceeded)

\* POST /api/agents/cancel/:runId, the endpoint the README documents: no
\* route is registered for it and nothing in the queue or the pipeline
\* consults a cancellation flag, so the request changes nothing.
PostAgentsCancel(t) ==
    /\ ~crashed
    /\ runsLeft > 0
    /\ runsLeft' = runsLeft - 1
    /\ runStatus[t] \in {"queued", "running"}
    /\ cancelRequested[t] = "no"
    /\ cancelRequested' = [cancelRequested EXCEPT ![t] = runStatus[t]]
    /\ UNCHANGED <<serviceVars, adapterVars, circuitVars, overBudget, usageVars, queue, processing, activeCount,
                   stepCounters, timers, nextRun, pc, runStatus, traces, logs,
                   messages, response, retryStep, costCalls, usageRecords,
                   auditLogs, started, thrown, catchThrew, crashed, lostTraces,
                   onAttempts, output, lastResponse, faultsLeft, attemptsLeft>>

\* The setTimeout callback of the finally block: processQueue().
TimerFire ==
    /\ ~crashed
    /\ timers > 0
    /\ timers' = timers - 1
    /\ ProcessQueue(queue, pc)
    /\ UNCHANGED <<serviceVars, adapterVars, circuitVars, requestVars, usageVars, lastResponse, onAttempts, output, nextRun, runsLeft, crashed, runStatus, traces, logs, messages, response,
                   retryStep, costCalls, usageRecords, auditLogs, thrown,
                   catchThrew, lostTraces, faultsLeft,
                   attemptsLeft>>

\* ------------------------------------------------------------ the pipeline

\* task t's pipeline is suspended at await l, in a live process
At(t, l) == ~crashed /\ pc[t] = l

Goto(t, l) == pc' = [pc EXCEPT ![t] = l]
Emit(t, types) == logs' = [logs EXCEPT ![t] = @ \o types]

\* storage.updateAgentRun(runId, {status: s}): updates the row if there is one
UpdateAgentRun(t, s) == [runStatus EXCEPT ![t] = IF @ = "none" THEN "none" ELSE s]

\* storage.updateAgentRun(runId, {outputJson: o}), likewise
UpdateOutput(t, o) == [output EXCEPT ![t] = IF runStatus[t] = "none" THEN @ ELSE o]

\* outputJson: {content, usage, usedProvider, attempts} of the completed update
OutputJsonWithoutAttempts(r) ==
    [kind |-> "result", usedProvider |-> r.usedProvider, attempts |-> 0]
OutputJson(r) ==
    [kind |-> "result", usedProvider |-> r.usedProvider, attempts |-> r.attempts]

\* outputJson: {error} of the failed update
ErrorJson == [kind |-> "error", usedProvider |-> "none", attempts |-> 0]

\* traceDecision's try/catch around storage.createDecisionTrace: does a failed
\* persist raise into the caller?
TraceRaisesOnFailure(ok) == ~ok
TraceRaises(ok) == FALSE

\* traceDecision(runId, stepType, ...): take the next stepNumber from the
\* per-run counter, then try to persist the trace (ok = the persist succeeded).
TraceDecision(t, stepType, ok) ==
    LET stepNumber == stepCounters[t] + 1 IN
    /\ Outcome(ok) /\ Charge(ok)
    /\ stepCounters' = [stepCounters EXCEPT ![t] = stepNumber]
    /\ traces' = IF ok
                 THEN [traces EXCEPT ![t] = Append(@, [stepNumber |-> stepNumber,
                                                       stepType |-> stepType])]
                 ELSE traces
    /\ lostTraces' = [lostTraces EXCEPT ![t] = IF ok THEN @ ELSE @ + 1]

\* executeTask rejects: processQueue's catch emits the error log and calls
\* storage.updateAgentRun(runId, {status: "failed"}), which is awaited.
Throw(t, cause, before) ==
    /\ Emit(t, before \o <<"error">>)
    /\ Goto(t, "catchUpdate")
    /\ thrown' = [thrown EXCEPT ![t] = cause]

\* the finally block: how many re-dispatch timers it arms
ReDispatchNever(q) == 0
ReDispatch(q) == IF Len(q) > 0 THEN 1 ELSE 0

\* the finally block: the slot counters after a pipeline ends
ReleaseSlot(n) == n - 1

Finally(t) ==
    /\ activeCount' = ReleaseSlot(activeCount)
    /\ processing' = FALSE
    /\ timers' = timers + ReDispatch(queue)
    /\ Goto(t, "done")

\* `if (!run)`: the lookup returned no row
RunMissingNever(found) == FALSE
RunMissing(found) == ~found

\* const run = await storage.getAgentRun(task.runId); if (!run) throw.
\* found = FALSE: the row is gone (its project was deleted, and the delete
\* cascades to the project's runs).
GetAgentRun(t, ok, found) ==
    /\ At(t, "getRun")
    /\ ok \/ found
    /\ Outcome(ok /\ found) /\ Charge(ok /\ found)
    /\ runStatus' = IF found THEN runStatus ELSE [runStatus EXCEPT ![t] = "none"]
    /\ IF ok /\ ~RunMissing(found)
       THEN Emit(t, <<"info">>) /\ Goto(t, "trace_ps") /\ UNCHANGED thrown
       ELSE Throw(t, IF ok THEN "notfound" ELSE "storage", <<>>)
    /\ UNCHANGED <<serviceVars, adapterVars, circuitVars, requestVars, usageVars, lastResponse, onAttempts, output, queueVars, messages, usageRecords, auditLogs, stepCounters, traces,
                   response, retryStep, costCalls, catchThrew, lostTraces,
                   attemptsLeft>>

\* await this.traceDecision(runId, "provider_selection", ...)
TraceProviderSelection(t, ok) ==
    /\ At(t, "trace_ps")
    /\ TraceDecision(t, "provider_selection", ok)
    /\ IF TraceRaises(ok)
       THEN Throw(t, "trace", <<>>)
       ELSE Goto(t, "markRunning") /\ UNCHANGED <<logs, thrown>>
    /\ UNCHANGED <<serviceVars, adapterVars, circuitVars, requestVars, usageVars, lastResponse, onAttempts, output, queueVars, storeVars, response, retryStep, costCalls,
                   catchThrew, attemptsLeft>>

\* await storage.updateAgentRun(task.runId, { status: "running" })
MarkRunning(t, ok) ==
    /\ At(t, "markRunning")
    /\ Outcome(ok) /\ Charge(ok)
    /\ IF ok
       THEN /\ runStatus' = UpdateAgentRun(t, "running")
            /\ Goto(t, "inputMsg")
            /\ UNCHANGED <<logs, thrown>>
       ELSE Throw(t, "storage", <<>>) /\ UNCHANGED runStatus
    /\ UNCHANGED <<serviceVars, adapterVars, circuitVars, requestVars, usageVars, lastResponse, onAttempts, output, queueVars, messages, usageRecords, auditLogs, stepCounters,
                   traces, response, retryStep, costCalls, catchThrew,
                   lostTraces, attemptsLeft>>

\* await storage.createMessage({role: "user", content: task.goal})
CreateInputMessage(t, ok) ==
    /\ At(t, "inputMsg")
    /\ Outcome(ok) /\ Charge(ok)
    /\ IF ok
       THEN /\ messages' = [messages EXCEPT ![t] = Append(@, "user")]
            /\ Goto(t, "trace_ca")
            /\ UNCHANGED <<logs, thrown>>
       ELSE Throw(t, "storage", <<>>) /\ UNCHANGED messages
    /\ UNCHANGED <<serviceVars, adapterVars, circuitVars, requestVars, usageVars, lastResponse, onAttempts, output, queueVars, runStatus, usageRecords, auditLogs, stepCounters,
                   traces, response, retryStep, costCalls, catchThrew,
                   lostTraces, attemptsLeft>>

\* await this.traceDecision(runId, "context_analysis", ...); emit "Calling ..."
TraceContextAnalysis(t, ok) ==
    /\ At(t, "trace_ca")
    /\ TraceDecision(t, "context_analysis", ok)
    /\ IF TraceRaises(ok)
       THEN Throw(t, "trace", <<>>)
       ELSE Emit(t, <<"info">>) /\ Goto(t, "orch") /\ UNCHANGED thrown
    /\ UNCHANGED <<serviceVars, adapterVars, circuitVars, requestVars, usageVars, lastResponse, onAttempts, output, queueVars, storeVars, response, retryStep, costCalls,
                   catchThrew, attemptsLeft>>

\* `if (nextProvider)` of the onAttempt callback: the stepType it traces
StepTypeAlwaysRetry(nextProvider) == "retry"
StepTypeOf(nextProvider) == IF nextProvider THEN "fallback" ELSE "retry"

\* The onAttempt callback handed to retryService.callWithRetry: retryStep++,
\* a warning log, then a "fallback" trace (nextProvider given) or a "retry" one.
OnAttempt(t, nextProvider, ok) ==
    /\ At(t, "orch")
    /\ attemptsLeft > 0
    /\ attemptsLeft' = attemptsLeft - 1
    /\ retryStep' = [retryStep EXCEPT ![t] = @ + 1]
    /\ onAttempts' = [onAttempts EXCEPT ![t] =
                          Append(@, [nextProvider |-> nextProvider,
                                     stepNumber |-> stepCounters[t] + 1,
                                     persisted |-> ok])]
    /\ TraceDecision(t, StepTypeOf(nextProvider), ok)
    /\ IF TraceRaises(ok)
       THEN Throw(t, "trace", <<"warning">>)
       ELSE Emit(t, <<"warning">>) /\ UNCHANGED <<pc, thrown>>
    /\ UNCHANGED <<serviceVars, adapterVars, circuitVars, requestVars, usageVars, lastResponse, output, queueVars, storeVars, response, costCalls, catchThrew>>

\* the orchestrator announced a switch of provider for t: it left the primary
FellBack(t) == \E i \in 1..Len(onAttempts[t]) : onAttempts[t][i].nextProvider

\* callWithRetry's usedProvider: the primary until a fallback transition
UsedProvider(t) == IF FellBack(t) THEN "fallback" ELSE "primary"

\* callWithRetry's attempts: the provider calls made.  Every retry callback
\* precedes one more call; a fallback transition made because a circuit is
\* open costs no call.
AttemptsReported(t, success) ==
    LET n == Len(onAttempts[t]) IN
    IF FellBack(t) THEN (IF success THEN 1 ELSE 0)..(n + 1) ELSE {n + 1}

\* `if (response.usedProvider !== run.provider)`; run.provider is the primary
UsedFallback(usedProvider) == usedProvider # "primary"

\* `if (!response.success)`: the failure branch of executeTask
ResponseFailedNever(success) == FALSE
ResponseFailed(success) == ~success

\* the await that follows storage.createMessage(assistant) on the success path
AfterOutputMessageTracksFirst == "trackCost"
AfterOutputMessage == "markCompleted"

\* response = await retryService.callWithRetry(...) returns.
\* !response.success: traceDecision("error_handling") is issued.
\* success: the "Used fallback provider" log when usedProvider differs from
\* run.provider, then storage.createMessage(assistant) is issued.
OrchestratorReturn(t, success, cost, attempts) ==
    /\ At(t, "orch")
    /\ success \/ cost = 0
    /\ attempts \in AttemptsReported(t, success)
    /\ response' = [response EXCEPT ![t] = [returned |-> TRUE,
                                            success |-> success,
                                            cost |-> cost,
                                            usedProvider |-> UsedProvider(t),
                                            attempts |-> attempts]]
    /\ IF ResponseFailed(success)
       THEN Goto(t, "trace_err") /\ UNCHANGED logs
       ELSE /\ Goto(t, "outMsg")
            /\ Emit(t, IF UsedFallback(UsedProvider(t)) THEN <<"info">> ELSE <<>>)
    /\ UNCHANGED <<serviceVars, adapterVars, circuitVars, requestVars, usageVars, lastResponse, onAttempts, output, queueVars, storeVars, stepCounters, traces, retryStep,
                   costCalls, thrown, catchThrew, lostTraces, faultsLeft, attemptsLeft>>

\* await this.traceDecision(runId, "error_handling", ...); throw new Error(...)
TraceErrorHandling(t, ok) ==
    /\ At(t, "trace_err")
    /\ TraceDecision(t, "error_handling", ok)
    /\ Throw(t, IF TraceRaises(ok) THEN "trace" ELSE "provider", <<>>)
    /\ UNCHANGED <<serviceVars, adapterVars, circuitVars, requestVars, usageVars, lastResponse, onAttempts, output, queueVars, storeVars, response, retryStep, costCalls,
                   catchThrew, attemptsLeft>>

\* await storage.createMessage({role: "assistant", ...})
CreateOutputMessage(t, ok) ==
    /\ At(t, "outMsg")
    /\ Outcome(ok) /\ Charge(ok)
    /\ IF ok
       THEN /\ messages' = [messages EXCEPT ![t] = Append(@, "assistant")]
            /\ Goto(t, AfterOutputMessage)
            /\ UNCHANGED <<logs, thrown>>
       ELSE Throw(t, "storage", <<>>) /\ UNCHANGED messages
    /\ UNCHANGED <<serviceVars, adapterVars, circuitVars, requestVars, usageVars, lastResponse, onAttempts, output, queueVars, runStatus, usageRecords, auditLogs, stepCounters,
                   traces, response, retryStep, costCalls, catchThrew,
                   lostTraces, attemptsLeft>>

\* the await that follows the completed update
AfterCompletedTracksCost == "trackCost"
AfterCompleted == "trace_rg"

\* await storage.updateAgentRun(runId, {status: "completed", outputJson, costEstimate})
MarkCompleted(t, ok) ==
    /\ At(t, "markCompleted")
    /\ Outcome(ok) /\ Charge(ok)
    /\ IF ok
       THEN /\ runStatus' = UpdateAgentRun(t, "completed")
            /\ output' = UpdateOutput(t, OutputJson(response[t]))
            /\ Goto(t, AfterCompleted)
            /\ UNCHANGED <<logs, thrown>>
       ELSE Throw(t, "storage", <<>>) /\ UNCHANGED <<runStatus, output>>
    /\ UNCHANGED <<serviceVars, adapterVars, circuitVars, requestVars, usageVars, lastResponse, onAttempts, queueVars, messages, usageRecords, auditLogs, stepCounters,
                   traces, response, retryStep, costCalls, catchThrew,
                   lostTraces, attemptsLeft>>

\* `if (parseFloat(costEstimate) > 0)`: is trackCost invoked for this cost?
\* (cost 0: usage absent, or an estimate that parses to zero)
CostIsTrackedAlways(cost) == TRUE
CostIsTracked(cost) == cost > 0

\* await this.traceDecision(runId, "response_generation", ...), then
\* trackCost(orgId, costEstimate) or, for a zero cost, storage.getOrg(orgId)
TraceResponseGeneration(t, ok) ==
    /\ At(t, "trace_rg")
    /\ TraceDecision(t, "response_generation", ok)
    /\ IF TraceRaises(ok)
       THEN Throw(t, "trace", <<>>)
       ELSE /\ Goto(t, IF CostIsTracked(response[t].cost) THEN "trackCost" ELSE "getOrg")
            /\ UNCHANGED <<logs, thrown>>
    /\ UNCHANGED <<serviceVars, adapterVars, circuitVars, requestVars, usageVars, lastResponse, onAttempts, output, queueVars, storeVars, response, retryStep, costCalls,
                   catchThrew, attemptsLeft>>

\* await trackCost(task.orgId, costEstimate)
TrackCost(t, ok) ==
    /\ At(t, "trackCost")
    /\ Outcome(ok) /\ Charge(ok)
    /\ costCalls' = [costCalls EXCEPT ![t] = @ + 1]
    /\ IF ok
       THEN Goto(t, "getOrg") /\ UNCHANGED <<logs, thrown>>
       ELSE Throw(t, "cost", <<>>)
    /\ UNCHANGED <<serviceVars, adapterVars, circuitVars, requestVars, usageVars, lastResponse, onAttempts, output, queueVars, storeVars, stepCounters, traces, response,
                   retryStep, catchThrew, lostTraces,
                   attemptsLeft>>

\* const org = await storage.getOrg(task.orgId); if (org) createUsageRecord
\* else the success log and storage.createAuditLog
GetOrg(t, ok, found) ==
    /\ At(t, "getOrg")
    /\ Outcome(ok /\ found) /\ Charge(ok /\ found)
    /\ ok \/ found
    /\ orgFound' = [orgFound EXCEPT ![t] =
                        IF ~ok THEN @ ELSE IF found THEN "found" ELSE "missing"]
    /\ IF ok
       THEN IF found
            THEN Goto(t, "usage") /\ UNCHANGED <<logs, thrown>>
            ELSE Goto(t, "audit") /\ Emit(t, <<"success">>) /\ UNCHANGED thrown
       ELSE Throw(t, "storage", <<>>)
    /\ UNCHANGED <<serviceVars, adapterVars, circuitVars, requestVars, usageProvider, lastResponse, onAttempts, output, queueVars, storeVars, stepCounters, traces, response,
                   retryStep, costCalls, catchThrew, lostTraces, attemptsLeft>>

\* the `provider` of the usage record: response.usedProvider
UsageProviderOf(r) == r.usedProvider

\* await storage.createUsageRecord({...}); emit the success log
CreateUsageRecord(t, ok) ==
    /\ At(t, "usage")
    /\ Outcome(ok) /\ Charge(ok)
    /\ IF ok
       THEN /\ usageRecords' = [usageRecords EXCEPT ![t] = @ + 1]
            /\ usageProvider' = [usageProvider EXCEPT ![t] = UsageProviderOf(response[t])]
            /\ Emit(t, <<"success">>)
            /\ Goto(t, "audit")
            /\ UNCHANGED thrown
       ELSE Throw(t, "storage", <<>>) /\ UNCHANGED <<usageRecords, usageProvider>>
    /\ UNCHANGED <<serviceVars, adapterVars, circuitVars, requestVars, orgFound, lastResponse, onAttempts, output, queueVars, runStatus, messages, auditLogs, stepCounters,
                   traces, response, retryStep, costCalls, catchThrew,
                   lostTraces, attemptsLeft>>

\* await storage.createAuditLog({...}); executeTask returns and the finally
\* block of processQueue runs
CreateAuditLog(t, ok) ==
    /\ At(t, "audit")
    /\ Outcome(ok) /\ Charge(ok)
    /\ IF ok
       THEN /\ auditLogs' = [auditLogs EXCEPT ![t] = @ + 1]
            /\ Finally(t)
            /\ UNCHANGED <<logs, thrown>>
       ELSE /\ Throw(t, "storage", <<>>)
            /\ UNCHANGED <<auditLogs, activeCount, processing, timers>>
    /\ UNCHANGED <<serviceVars, adapterVars, circuitVars, requestVars, usageVars, lastResponse, onAttempts, output, queue, nextRun, runsLeft, started, crashed, runStatus, messages,
                   usageRecords,
                   stepCounters, traces, response, retryStep, costCalls,
                   catchThrew, lostTraces, attemptsLeft>>

\* the status processQueue's catch handler writes for a pipeline that threw
CatchStatusNone(old) == old
CatchStatus(old) == "failed"

\* enqueue() and the timer callback call this.processQueue() and drop the
\* promise.  When the catch handler itself throws, that promise rejects with
\* nobody to handle it: Node (v20 is required) then terminates the process
\* unless the host installed an unhandledRejection handler.
UnhandledRejectionOutcomes(ok) == IF ok THEN {FALSE} ELSE BOOLEAN

\* processQueue's catch: await storage.updateAgentRun(runId, {status: "failed"})
\* returns or throws; either way the finally block runs
CatchUpdate(t, ok, dies) ==
    /\ At(t, "catchUpdate")
    /\ Outcome(ok) /\ Charge(ok)
    /\ dies \in UnhandledRejectionOutcomes(ok)
    /\ runStatus' = IF ok THEN UpdateAgentRun(t, CatchStatus(runStatus[t])) ELSE runStatus
    /\ output' = IF ok THEN UpdateOutput(t, ErrorJson) ELSE output
    /\ catchThrew' = [catchThrew EXCEPT ![t] = ~ok]
    /\ crashed' = dies
    /\ Finally(t)
    /\ UNCHANGED <<serviceVars, adapterVars, circuitVars, requestVars, usageVars, lastResponse, onAttempts, queue, nextRun, runsLeft, started, messages, usageRecords,
                   auditLogs, stepCounters, traces, logs, response, retryStep,
                   costCalls, thrown, lostTraces, attemptsLeft>>

Step(t) ==
    \/ \E ok, found \in BOOLEAN : GetAgentRun(t, ok, found)
    \/ \E ok \in BOOLEAN : TraceProviderSelection(t, ok)
    \/ \E ok \in BOOLEAN : MarkRunning(t, ok)
    \/ \E ok \in BOOLEAN : CreateInputMessage(t, ok)
    \/ \E ok \in BOOLEAN : TraceContextAnalysis(t, ok)
    \/ \E nextProvider, ok \in BOOLEAN : OnAttempt(t, nextProvider, ok)
    \/ \E success \in BOOLEAN, cost \in 0..1, attempts \in 0..(MaxAttempts + 1) :
           OrchestratorReturn(t, success, cost, attempts)
    \/ \E ok \in BOOLEAN : TraceErrorHandling(t, ok)
    \/ \E ok \in BOOLEAN : CreateOutputMessage(t, ok)
    \/ \E ok \in BOOLEAN : MarkCompleted(t, ok)
    \/ \E ok \in BOOLEAN : TraceResponseGeneration(t, ok)
    \/ \E ok \in BOOLEAN : TrackCost(t, ok)
    \/ \E ok, found \in BOOLEAN : GetOrg(t, ok, found)
    \/ \E ok \in BOOLEAN : CreateUsageRecord(t, ok)
    \/ \E ok \in BOOLEAN : CreateAuditLog(t, ok)
    \/ \E ok, dies \in BOOLEAN : CatchUpdate(t, ok, dies)

Next ==
    \/ \E outcome \in Outcomes, exceeded \in BOOLEAN : PostAgentsRun(outcome, exceeded)
    \/ \E outcome \in Outcomes, exceeded \in BOOLEAN : PostZapierTrigger(outcome, exceeded)
    \/ \E t \in RunIds : PostAgentsCancel(t)
    \/ TimerFire
    \/ \E t \in RunIds : Step(t)

Spec == Init /\ [][Next]_vars
SpecQueue == InitQueue /\ [][Next]_vars
SpecRetry == InitRetry /\ [][Next]_vars

\* The event loop runs every due timer callback, and every awaited
\* collaborator call returns or throws.
FairSpec == Spec /\ WF_vars(TimerFire) /\ \A t \in RunIds : WF_vars(Step(t))

TypeOK ==
    /\ activeCount \in Int
    /\ crashed \in BOOLEAN
    /\ processing \in BOOLEAN
    /\ timers \in Nat
    /\ \A t \in RunIds : runStatus[t] \in {"none", "queued", "running", "completed", "failed"}

\* ---------------------------------------------------- provider adapters

\* the adapter classes of providerAdapters
FetchAdapters == {"OpenAI", "Anthropic", "xAI", "Perplexity", "Gemini"}
ClientAdapters == {"HuggingFace", "Ollama", "Groq"}
Adapters == {"Base"} \cup FetchAdapters \cup ClientAdapters

\* the provider names getProviderAdapter accepts (after toLowerCase)
Providers == {"openai", "anthropic", "xai", "perplexity", "google", "gemini",
              "huggingface", "ollama", "groq"}

\* getProviderAdapter(provider, apiKey): the switch
AdapterOf(provider) ==
    CASE provider = "openai" -> "OpenAI"
      [] provider = "anthropic" -> "Anthropic"
      [] provider = "xai" -> "xAI"
      [] provider = "perplexity" -> "Perplexity"
      [] provider \in {"google", "gemini"} -> "Gemini"
      [] provider = "huggingface" -> "HuggingFace"
      [] provider = "ollama" -> "Ollama"
      [] provider = "groq" -> "Groq"

\* the apiKey the adapter is constructed with: `apiKey || process.env...`,
\* "free" for HuggingFace and "local" for Ollama
HasKey(adapter, apiKey, envKey) ==
    IF adapter \in {"HuggingFace", "Ollama"} THEN TRUE ELSE apiKey \/ envKey

\* the adapters whose call() starts with `if (!this.apiKey) return {...}`
ChecksKey(adapter) == adapter \in {"Base"} \cup FetchAdapters

\* call() ends: the promise resolves with a ProviderResponse or rejects
EndCall(c, threw, success, error) ==
    /\ adapterResults' = Append(adapterResults, [adapter |-> c.adapter,
                                                 hasKey |-> c.hasKey,
                                                 requests |-> c.requests,
                                                 threw |-> threw,
                                                 success |-> success,
                                                 error |-> error])
    /\ adapterCall' = IdleCall

\* adapter.call(prompt, model) up to its first await.  Without a key the
\* checking adapters return "... API key not configured"; the base adapter
\* returns its stub response; the fetch adapters issue the request; the
\* others start the dynamic import of their client.
AdapterCall(adapter, hasKey) ==
    /\ adapterCall.at = "idle"
    /\ callsLeft > 0
    /\ callsLeft' = callsLeft - 1
    /\ LET c == [at |-> "idle", adapter |-> adapter, hasKey |-> hasKey, requests |-> 0] IN
       IF ChecksKey(adapter) /\ ~hasKey
       THEN EndCall(c, FALSE, FALSE, "not configured")
       ELSE IF adapter = "Base"
       THEN EndCall(c, FALSE, TRUE, "none")
       ELSE IF adapter \in FetchAdapters
       THEN /\ adapterCall' = [c EXCEPT !.at = "fetch", !.requests = 1]
            /\ UNCHANGED adapterResults
       ELSE /\ adapterCall' = [c EXCEPT !.at = "import"]
            /\ UNCHANGED adapterResults
    /\ UNCHANGED <<serviceVars, orchestratorVars, circuitVars>>

\* getProviderAdapter(provider, apiKey).call(prompt, model)
CallProvider(provider, apiKey, envKey) ==
    AdapterCall(AdapterOf(provider), HasKey(AdapterOf(provider), apiKey, envKey))

\* a BaseProviderAdapter constructed with or without a key, then call()
CallBase(hasKey) == AdapterCall("Base", hasKey)

\* `await fetch(...)` settles; a rejection is caught: {success: false, error}
FetchSettles(rejects) ==
    /\ adapterCall.at = "fetch"
    /\ IF rejects
       THEN EndCall(adapterCall, FALSE, FALSE, "exception")
       ELSE adapterCall' = [adapterCall EXCEPT !.at = "json"] /\ UNCHANGED adapterResults
    /\ UNCHANGED <<serviceVars, orchestratorVars, circuitVars, callsLeft>>

\* `await response.json()` settles; then `if (!response.ok)`
JsonSettles(rejects, responseOk) ==
    /\ adapterCall.at = "json"
    /\ IF rejects
       THEN EndCall(adapterCall, FALSE, FALSE, "exception")
       ELSE IF ~responseOk
       THEN EndCall(adapterCall, FALSE, FALSE, "api error")
       ELSE EndCall(adapterCall, FALSE, TRUE, "none")
    /\ UNCHANGED <<serviceVars, orchestratorVars, circuitVars, callsLeft>>

\* `await import("./...Client")` settles.  Nothing in call() catches a
\* rejection: the promise call() returned rejects with it.
ImportSettles(rejects) ==
    /\ adapterCall.at = "import"
    /\ IF rejects
       THEN EndCall(adapterCall, TRUE, FALSE, "none")
       ELSE adapterCall' = [adapterCall EXCEPT !.at = "client"] /\ UNCHANGED adapterResults
    /\ UNCHANGED <<serviceVars, orchestratorVars, circuitVars, callsLeft>>

\* `return generateWith...(prompt, model)`: the client answers with a
\* ProviderResponse, "not configured" without a request when it has no key
ClientSettles(success) ==
    /\ adapterCall.at = "client"
    /\ IF ~adapterCall.hasKey
       THEN ~success /\ EndCall(adapterCall, FALSE, FALSE, "not configured")
       ELSE EndCall([adapterCall EXCEPT !.requests = 1], FALSE, success,
                    IF success THEN "none" ELSE "api error")
    /\ UNCHANGED <<serviceVars, orchestratorVars, circuitVars, callsLeft>>

NextAdapter ==
    \/ \E provider \in Providers, apiKey, envKey \in BOOLEAN :
           CallProvider(provider, apiKey, envKey)
    \/ \E hasKey \in BOOLEAN : CallBase(hasKey)
    \/ \E rejects \in BOOLEAN : FetchSettles(rejects)
    \/ \E rejects, responseOk \in BOOLEAN : JsonSettles(rejects, responseOk)
    \/ \E rejects \in BOOLEAN : ImportSettles(rejects)
    \/ \E success \in BOOLEAN : ClientSettles(success)

SpecAdapter == InitAdapter /\ [][NextAdapter]_vars

\* ------------------------------------- retry orchestrator and its circuits
\* retryService (server/services/retryService): callWithRetry and the circuit
\* registry behind it.

FailureThreshold == 2   \* consecutive failures that open a circuit
RetryCount == 2         \* calls callWithRetry makes to one provider
CooldownTicks == 1      \* clock ticks an opened circuit refuses calls for

\* the circuit refuses calls: open with its cooldown running, or half-open
\* with its one trial call given out
BlockedNever(cs) == FALSE
Blocked(cs) ==
    \/ cs.state = "half-open"
    \/ cs.state = "open" /\ now < cs.cooldownUntil

\* the check-and-update path, check half: a call is let through; an open
\* circuit whose cooldown elapsed half-opens for this one trial call
AdmitCall(cs) == IF cs.state = "open" THEN [cs EXCEPT !.state = "half-open"] ELSE cs

\* the check-and-update path, update half: the result of a call is recorded.
\* A result that arrives for a circuit that opened meanwhile changes nothing.
RecordResultOpensAtOnce(cs, trial, success) ==
    IF success
    THEN ClosedCircuit
    ELSE [state |-> "open", consecutiveFailures |-> cs.consecutiveFailures + 1,
          cooldownUntil |-> now + CooldownTicks]
RecordResult(cs, trial, success) ==
    LET failures == cs.consecutiveFailures + 1 IN
    IF success
    THEN IF cs.state = "closed" \/ (trial /\ cs.state = "half-open")
         THEN ClosedCircuit
         ELSE cs
    ELSE IF trial /\ cs.state = "half-open"
    THEN [state |-> "open", consecutiveFailures |-> failures,
          cooldownUntil |-> now + CooldownTicks]
    ELSE IF cs.state # "closed"
    THEN cs
    ELSE IF failures >= FailureThreshold
    THEN [state |-> "open", consecutiveFailures |-> failures,
          cooldownUntil |-> now + CooldownTicks]
    ELSE [cs EXCEPT !.consecutiveFailures = failures]

\* callWithRetry returns {success: false}: the chain is used up
ReturnFailure(r) == [r EXCEPT !.at = "done", !.success = FALSE, !.pending = "none"]

\* callWithRetry turns to the provider r.idx of the chain: it consults the
\* provider's circuit and either starts an adapter call or skips the provider
Attempt(c, r) ==
    LET p == Chain[r.idx]
        cs == circuits[p]
    IN
    IF Blocked(cs)
    THEN /\ callers' = [callers EXCEPT ![c] =
                IF r.idx < Len(Chain)
                THEN [r EXCEPT !.at = "callback", !.pending = "fallback",
                               !.outcome[p] = cs.state]
                ELSE ReturnFailure([r EXCEPT !.outcome[p] = cs.state])]
         /\ UNCHANGED circuits
    ELSE /\ circuits' = [circuits EXCEPT ![p] = AdmitCall(cs)]
         /\ callers' = [callers EXCEPT ![c] =
                [r EXCEPT !.at = "calling", !.trial = (cs.state = "open"),
                          !.calls[p] = @ + 1, !.pending = "none"]]

\* how an invocation finds the circuit of its primary provider (history)
Found(cs) ==
    IF cs.state # "open" THEN cs.state
    ELSE IF now < cs.cooldownUntil THEN "cooling" ELSE "elapsed"

\* retryService.callWithRetry(provider, prompt, model, onAttempt) up to its
\* first await
CallWithRetry(c) ==
    /\ callers[c].at \in {"idle", "done"}
    /\ invocationsLeft > 0
    /\ invocationsLeft' = invocationsLeft - 1
    /\ callbacks' = [callbacks EXCEPT ![c] = <<>>]
    /\ Attempt(c, [IdleCaller EXCEPT !.found = Found(circuits[Chain[1]])])
    /\ UNCHANGED <<serviceVars, orchestratorVars, adapterVars, now, adminLeft>>
    /\ lastAdmin' = NoAdmin

\* the retry budget of a provider is not used up after `made` calls to it
CanRetryAlways(made) == TRUE
CanRetry(made) == made < RetryCount

\* the adapter call returns its ProviderResponse: the result is recorded on
\* the provider's circuit; a failure is followed by the onAttempt callback
\* for a retry or, the provider's budget used up, for the fallback
CallReturns(c, success) ==
    LET r == callers[c]
        p == Chain[r.idx]
    IN
    /\ r.at = "calling"
    /\ circuits' = [circuits EXCEPT ![p] = RecordResult(circuits[p], r.trial, success)]
    /\ callers' = [callers EXCEPT ![c] =
           IF success
           THEN [r EXCEPT !.at = "done", !.success = TRUE, !.usedProvider = p]
           ELSE IF CanRetry(r.calls[p])
           THEN [r EXCEPT !.at = "callback", !.pending = "retry"]
           ELSE IF r.idx < Len(Chain)
           THEN [r EXCEPT !.at = "callback", !.pending = "fallback",
                          !.outcome[p] = "exhausted"]
           ELSE ReturnFailure([r EXCEPT !.outcome[p] = "exhausted"])]
    /\ UNCHANGED <<serviceVars, orchestratorVars, adapterVars, now, callbacks, invocationsLeft,
                   adminLeft>>
    /\ lastAdmin' = NoAdmin

\* `await onAttempt(attempt, error, nextProvider)` returns.  The callback of
\* executeTask issues a "fallback" trace (nextProvider given) or a "retry"
\* one; a trace that fails to persist is swallowed (ok = it persisted).
\* callWithRetry then moves to the next provider, or waits out the backoff.
AttemptCallback(c, ok) ==
    LET r == callers[c]
        nextProvider == r.pending = "fallback"
    IN
    /\ r.at = "callback"
    /\ Outcome(ok) /\ Charge(ok)
    /\ callbacks' = [callbacks EXCEPT ![c] =
           Append(@, [nextProvider |-> nextProvider,
                      stepType |-> StepTypeOf(nextProvider),
                      persisted |-> ok,
                      fallbackCalls |-> r.calls[Chain[Len(Chain)]]])]
    /\ IF nextProvider
       THEN Attempt(c, [r EXCEPT !.idx = @ + 1])
       ELSE /\ callers' = [callers EXCEPT ![c] = [r EXCEPT !.at = "backoff",
                                                           !.pending = "none"]]
            /\ UNCHANGED circuits
    /\ UNCHANGED <<serviceVars, pipelineVars, adapterVars, now, invocationsLeft, adminLeft>>
    /\ lastAdmin' = NoAdmin

\* the backoff delay between two calls to the same provider elapses
BackoffElapses(c) ==
    /\ callers[c].at = "backoff"
    /\ Attempt(c, callers[c])
    /\ UNCHANGED <<serviceVars, orchestratorVars, adapterVars, now, callbacks, invocationsLeft,
                   adminLeft>>
    /\ lastAdmin' = NoAdmin

\* time passes
Tick ==
    /\ now < MaxTime
    /\ now' = now + 1
    /\ UNCHANGED <<serviceVars, orchestratorVars, adapterVars, circuits, callers, callbacks,
                   invocationsLeft, adminLeft>>
    /\ lastAdmin' = NoAdmin

\* retryService.getCircuitStatus(): a snapshot of every provider's circuit
GetCircuitStatus(cs) == cs

\* retryService.resetCircuit(provider)
ResetCircuitKeeps(cs, provider) == cs
ResetCircuit(cs, provider) ==
    [p \in DOMAIN cs |-> IF p = provider THEN ClosedCircuit ELSE cs[p]]

\* retryService.resetAllCircuits()
ResetAllCircuits(cs) == [p \in DOMAIN cs |-> ClosedCircuit]

\* the roles of a user (shared/schema.ts); "anonymous" has no session
Roles == {"owner", "admin", "member", "viewer"}

\* requireAuth lets the request through: it carries a session
RequireAuth(role) == role # "anonymous"

\* `["owner", "admin"].includes(user.role || "")`
IsAdmin(role) == role \in {"owner", "admin"}

\* provider.toLowerCase(), on the provider names the requests carry
ToLowerCase(provider) == IF provider = "OpenAI" THEN "openai" ELSE provider

\* the validProviders of POST /api/circuits/reset
ValidProviders == {"openai", "anthropic", "google", "gemini", "perplexity", "xai"}

\* the `provider` of the request bodies explored ("" = absent)
ProviderInputs == {"", "openai", "OpenAI", "groq"}

AdminRequest ==
    /\ adminLeft > 0
    /\ adminLeft' = adminLeft - 1
    /\ UNCHANGED <<serviceVars, orchestratorVars, adapterVars, now, callers, callbacks,
                   invocationsLeft>>

\* the role check GET /api/circuits makes before it answers: requireAuth only
MayReadCircuits(role) == RequireAuth(role)

\* GET /api/circuits (requireAuth, apiLimiter)
GetCircuits(role) ==
    /\ AdminRequest
    /\ lastAdmin' = IF MayReadCircuits(role)
                    THEN [route |-> "status", role |-> role, status |-> 200,
                          target |-> "none", report |-> {GetCircuitStatus(circuits)}]
                    ELSE [route |-> "status", role |-> role, status |-> 401,
                          target |-> "none", report |-> {}]
    /\ UNCHANGED circuits

\* POST /api/circuits/reset (requireAuth, apiLimiter): 403 unless the user is
\* an owner or an admin, 400 for a provider that is not valid, then
\* resetCircuit(provider.toLowerCase()) or resetAllCircuits(), and the audit
\* log row of the reset.
PostCircuitsReset(role, provider) ==
    LET status == IF ~RequireAuth(role) THEN 401
                  ELSE IF ~IsAdmin(role) THEN 403
                  ELSE IF provider # "" /\ ToLowerCase(provider) \notin ValidProviders
                  THEN 400
                  ELSE 200
        resets == RequireAuth(role) /\ IsAdmin(role)
                  /\ (provider = "" \/ ToLowerCase(provider) \in ValidProviders)
    IN
    /\ AdminRequest
    /\ circuits' = IF ~resets THEN circuits
                   ELSE IF provider # ""
                   THEN ResetCircuit(circuits, ToLowerCase(provider))
                   ELSE ResetAllCircuits(circuits)
    /\ lastAdmin' = [route |-> "reset", role |-> role, status |-> status,
                     target |-> IF ~resets THEN "none"
                                ELSE IF provider # "" THEN ToLowerCase(provider)
                                ELSE "all",
                     report |-> {}]

NextCircuit ==
    \/ \E c \in Slots : CallWithRetry(c)
    \/ \E c \in Slots, success \in BOOLEAN : CallReturns(c, success)
    \/ \E c \in Slots, ok \in BOOLEAN : AttemptCallback(c, ok)
    \/ \E c \in Slots : BackoffElapses(c)
    \/ Tick

NextAdmin ==
    \/ NextCircuit
    \/ \E role \in Roles \cup {"anonymous"} : GetCircuits(role)
    \/ \E role \in Roles \cup {"anonymous"}, provider \in ProviderInputs :
          PostCircuitsReset(role, provider)

SpecCircuit == InitCircuit /\ [][NextCircuit]_vars

SpecAdmin == InitAdmin /\ [][NextAdmin]_vars

\* Every invocation in progress gets to run: adapter calls return, callbacks
\* and backoff delays end.
FairSpecCircuit ==
    /\ InitPerSlot /\ [][NextCircuit]_vars
    /\ \A c \in Slots :
          /\ WF_vars(\E success \in BOOLEAN : CallReturns(c, success))
          /\ WF_vars(\E ok \in BOOLEAN : AttemptCallback(c, ok))
          /\ WF_vars(BackoffElapses(c))

\* ------------------------------------------------------- log streaming
\* server/routes.ts: the sseConnections map, the "log" listener of the queue
\* and GET /api/agents/stream/:runId.  A connection is its position in
\* `connections`, the order of opening.

\* the connections opened for run r, and the most recently opened of them
ConnectionsOf(r) == {c \in 1..Len(connections) : connections[c].runId = r}
LatestOf(r) == CHOOSE c \in ConnectionsOf(r) : \A d \in ConnectionsOf(r) : d <= c

\* connection c is open and is the most recently opened one for its run
IsLatestOpen(c) == connections[c].open /\ c = LatestOf(connections[c].runId)

\* sseConnections.set(runId, res)
SseSet(m, r, c) == [m EXCEPT ![r] = c]

\* sseConnections.delete(runId)
SseDelete(m, r) == [m EXCEPT ![r] = 0]

\* GET /api/agents/stream/:runId (requireAuth): the event-stream headers,
\* sseConnections.set(runId, res), and the close listener is installed.  A
\* request without a session never reaches the handler.
GetAgentsStream(role, r) ==
    /\ streamsLeft > 0
    /\ RequireAuth(role)
    /\ streamsLeft' = streamsLeft - 1
    /\ connections' = Append(connections, [runId |-> r, open |-> TRUE, received |-> 0,
                                           foreign |-> 0, missed |-> 0])
    /\ sseConnections' = SseSet(sseConnections, r, Len(connections) + 1)
    /\ UNCHANGED <<orchestratorVars, adapterVars, circuitVars, autofixVars, eventsLeft>>

\* req.on("close", () => sseConnections.delete(runId)) of connection c
OnClose(c) ==
    /\ c \in 1..Len(connections)
    /\ connections[c].open
    /\ connections' = [connections EXCEPT ![c].open = FALSE]
    /\ sseConnections' = SseDelete(sseConnections, connections[c].runId)
    /\ UNCHANGED <<orchestratorVars, adapterVars, circuitVars, autofixVars, streamsLeft,
                   eventsLeft>>

\* orchestratorQueue.on("log", (runId, logEntry) => ...): the event is written
\* to the connection registered under runId, if there is one.  `missed`
\* counts, as history, the events of a run that were not written to the
\* connection that is open and the most recently opened one for the run.
OnLog(r) ==
    /\ eventsLeft > 0
    /\ eventsLeft' = eventsLeft - 1
    /\ LET res == sseConnections[r] IN
       connections' =
           [c \in 1..Len(connections) |->
               IF c = res
               THEN IF connections[c].runId = r
                    THEN [connections[c] EXCEPT !.received = @ + 1]
                    ELSE [connections[c] EXCEPT !.foreign = @ + 1]
               ELSE IF connections[c].runId = r /\ IsLatestOpen(c)
                    THEN [connections[c] EXCEPT !.missed = @ + 1]
                    ELSE connections[c]]
    /\ UNCHANGED <<orchestratorVars, adapterVars, circuitVars, autofixVars, sseConnections,
                   streamsLeft>>

NextStream ==
    \/ \E role \in Roles \cup {"anonymous"}, r \in StreamRuns : GetAgentsStream(role, r)
    \/ \E c \in 1..MaxConnections : OnClose(c)
    \/ \E r \in StreamRuns : OnLog(r)

SpecStream == InitStream /\ [][NextStream]_vars

\* ------------------------------------------------------- failure handler
\* The auto-fix service (src/unnamed/part_005): handleFailure, diagnoseFailure,
\* attemptAutoFix, attemptFixWithModel, createStructuredIssue.  One failure
\* is handled at a time; `fix.calls` lists the model calls made for it, in
\* order, and `fix.audits` the audit log rows written.

\* the diagnoses a FailureDiagnosis can carry
Diagnoses == [canAutoFix : BOOLEAN, fixDifficulty : {"easy", "medium", "hard"}]

\* the fallback diagnosis of diagnoseFailure
FallbackDiagnosis == [canAutoFix |-> FALSE, fixDifficulty |-> "medium"]

\* How an adapter call ends for its caller: a response with a JSON plan, a
\* response without one, a failure response, or a rejection.  The Gemini
\* adapter catches everything; GroqAdapter.call awaits a dynamic import
\* outside any try block.
CallOutcomes(provider) ==
    {"plan", "noJson", "failed"} \cup (IF provider = "groq" THEN {"threw"} ELSE {})

\* `diagnosis.canAutoFix && diagnosis.fixDifficulty !== "hard"`
FeasibleAlways(d) == TRUE
Feasible(d) == d.canAutoFix /\ d.fixDifficulty # "hard"

\* what attemptAutoFix returns when the fix is not feasible
NotRecommended == [kind |-> "result", success |-> FALSE, escalated |-> FALSE,
                   issueUrl |-> FALSE, error |-> "notRecommended"]

\* what attemptFixWithModel returns for the outcome of its adapter call
FixWithModel(outcome) ==
    [kind |-> "result", success |-> outcome = "plan", escalated |-> FALSE,
     issueUrl |-> FALSE,
     error |-> IF outcome = "plan" THEN "none" ELSE outcome]

\* `{ ...level2Result, escalated: true }`
Escalated(r) == [r EXCEPT !.escalated = TRUE]

\* what attemptAutoFix returns after createStructuredIssue
IssueCreated == [kind |-> "result", success |-> FALSE, escalated |-> TRUE,
                 issueUrl |-> TRUE, error |-> "unsuccessful"]

\* the promise of attemptAutoFix rejects: its caller gets no result
Rejected == [NoResult EXCEPT !.kind = "rejected"]

\* handleFailure did not call attemptAutoFix: autoFixResult stays undefined
Skipped == [NoResult EXCEPT !.kind = "skipped"]

FixAt(l) == fix.at = l

\* a failure can be handled: none is being handled
CanHandle == fixesLeft > 0 /\ fix.at \in {"idle", "done"}

\* handleFailure(context): diagnoseFailure calls the Gemini model
HandleFailure ==
    /\ CanHandle
    /\ fixesLeft' = fixesLeft - 1
    /\ fix' = [IdleFix EXCEPT !.at = "diagnose", !.entry = "handleFailure",
                              !.calls = <<"diagnosis">>]
    /\ UNCHANGED <<orchestratorVars, adapterVars, circuitVars, streamVars>>

\* storage.createAuditLog({action: "auto_fix_attempt"}) is called: the first
\* statement of attemptAutoFix
StartAutoFix(f, d) ==
    [f EXCEPT !.at = "audit", !.canAutoFix = d.canAutoFix,
              !.fixDifficulty = d.fixDifficulty]

\* gemini.call of diagnoseFailure returns: the parsed diagnosis d, or the
\* fallback diagnosis; then handleFailure's own feasibility check
DiagnosisReturns(outcome, d) ==
    /\ FixAt("diagnose")
    /\ outcome \in CallOutcomes("gemini")
    /\ outcome # "plan" => d = FallbackDiagnosis
    /\ fix' = IF Feasible(d)
              THEN StartAutoFix(fix, d)
              ELSE [fix EXCEPT !.at = "done", !.canAutoFix = d.canAutoFix,
                               !.fixDifficulty = d.fixDifficulty, !.result = Skipped]
    /\ UNCHANGED <<orchestratorVars, adapterVars, circuitVars, streamVars, fixesLeft>>

\* attemptAutoFix(context, diagnosis), called by other code than handleFailure
AttemptAutoFix(d) ==
    /\ CanHandle
    /\ fixesLeft' = fixesLeft - 1
    /\ fix' = StartAutoFix([IdleFix EXCEPT !.entry = "attemptAutoFix"], d)
    /\ UNCHANGED <<orchestratorVars, adapterVars, circuitVars, streamVars>>

\* the auto_fix_attempt audit row is written (or createAuditLog throws); the
\* feasibility check; level 1: attemptFixWithModel(..., "gemini") calls the model
AuditReturns(ok) ==
    /\ FixAt("audit")
    /\ fix' = IF ~ok
              THEN [fix EXCEPT !.at = "done", !.result = Rejected]
              ELSE IF ~Feasible(fix)
              THEN [fix EXCEPT !.at = "done", !.result = NotRecommended,
                               !.audits = Append(@, "auto_fix_attempt")]
              ELSE [fix EXCEPT !.at = "level1", !.calls = Append(@, "gemini"),
                               !.audits = Append(@, "auto_fix_attempt")]
    /\ UNCHANGED <<orchestratorVars, adapterVars, circuitVars, streamVars, fixesLeft>>

\* level 1 returns; on failure level 2: attemptFixWithModel(..., "groq")
Level1Returns(outcome) ==
    /\ FixAt("level1")
    /\ outcome \in CallOutcomes("gemini")
    /\ LET level1Result == FixWithModel(outcome) IN
       fix' = IF level1Result.success
              THEN [fix EXCEPT !.at = "done", !.level1 = level1Result,
                               !.result = level1Result]
              ELSE [fix EXCEPT !.at = "level2", !.level1 = level1Result,
                               !.calls = Append(@, "groq")]
    /\ UNCHANGED <<orchestratorVars, adapterVars, circuitVars, streamVars, fixesLeft>>

\* level 2 returns or rejects; on failure level 3: createStructuredIssue
\* calls storage.createAuditLog({action: "issue_created"})
Level2Returns(outcome) ==
    /\ FixAt("level2")
    /\ outcome \in CallOutcomes("groq")
    /\ LET level2Result == FixWithModel(outcome) IN
       fix' = IF outcome = "threw"
              THEN [fix EXCEPT !.at = "done", !.result = Rejected]
              ELSE IF level2Result.success
              THEN [fix EXCEPT !.at = "done", !.level2 = level2Result,
                               !.result = Escalated(level2Result)]
              ELSE [fix EXCEPT !.at = "issue", !.level2 = level2Result]
    /\ UNCHANGED <<orchestratorVars, adapterVars, circuitVars, streamVars, fixesLeft>>

\* the issue_created audit row is written (or createAuditLog throws)
IssueReturns(ok) ==
    /\ FixAt("issue")
    /\ fix' = IF ok
              THEN [fix EXCEPT !.at = "done", !.result = IssueCreated,
                               !.audits = Append(@, "issue_created")]
              ELSE [fix EXCEPT !.at = "done", !.result = Rejected]
    /\ UNCHANGED <<orchestratorVars, adapterVars, circuitVars, streamVars, fixesLeft>>

NextAutoFix ==
    \/ HandleFailure
    \/ \E outcome \in CallOutcomes("gemini"), d \in Diagnoses : DiagnosisReturns(outcome, d)
    \/ \E d \in Diagnoses : AttemptAutoFix(d)
    \/ \E ok \in BOOLEAN : AuditReturns(ok)
    \/ \E outcome \in CallOutcomes("gemini") : Level1Returns(outcome)
    \/ \E outcome \in CallOutcomes("groq") : Level2Returns(outcome)
    \/ \E ok \in BOOLEAN : IssueReturns(ok)

SpecAutoFix == InitAutoFix /\ [][NextAutoFix]_vars

\* ================================================================== claims

HasLog(t, type) == \E i \in 1..Len(logs[t]) : logs[t][i] = type
HasMessage(t, role) == \E i \in 1..Len(messages[t]) : messages[t][i] = role
TracesOfType(t, stepType) == {i \in 1..Len(traces[t]) : traces[t][i].stepType = stepType}
Finished(t) == pc[t] = "done"

\* C1 (SpecQueue): after any sequence of enqueue calls and pipeline
\* completions, successful or failed, activeCount is never above the
\* concurrency bound N = 2 and never below 0.
C1_ActiveWithinBound == activeCount >= 0 /\ activeCount <= concurrency

\* C1 witness: a failed pipeline has completed, another one is executing and a
\* task waits
C1_Witness ==
    /\ \E t \in RunIds : Finished(t) /\ thrown[t] # "none"
    /\ activeCount = 1
    /\ queue # <<>>

\* C2 (FairSpec): every enqueued task whose Run exists has its pipeline
\* started, and its Run reaches status completed or failed, provided every
\* collaborator call returns or throws.
C2_EveryRunReachesTerminal ==
    \A t \in RunIds :
        (pc[t] # "idle" /\ runStatus[t] # "none")
            ~> \/ pc[t] \notin {"idle", "queued"} /\ runStatus[t] \in {"completed", "failed"}
               \/ runStatus[t] = "none"

\* C3 (SpecQueue): admission is FIFO.  Run ids are handed out in enqueue
\* order, so: whenever task b has been admitted, every task a enqueued before
\* it (a < b) was admitted earlier.
C3_AdmissionIsFIFO ==
    \A j \in 1..Len(started) :
        \A a \in 1..(started[j] - 1) :
            \E i \in 1..(j - 1) : started[i] = a

\* C3 witness: three tasks have been admitted, the last one from the backlog
\* after a completion
C3_Witness ==
    /\ Len(started) >= 3
    /\ \E t \in RunIds : Finished(t)

\* C4: a terminal status of a Run, once written, never changes: a Run
\* persisted as completed is never later updated to failed.
C4_TerminalStatusNeverChanges ==
    [][\A t \in RunIds : runStatus[t] \in Terminal => runStatus'[t] = runStatus[t]]_vars

\* C5: for every run the stepNumbers of the persisted decision traces are
\* exactly 1..K, without gaps or repeats, whatever createDecisionTrace calls fail.
C5_StepNumbersGapFree ==
    \A t \in RunIds : \A i \in 1..Len(traces[t]) : traces[t][i].stepNumber = i

\* the await the pipeline of t reaches after the traceDecision call it is in,
\* when that trace is persisted
C6_NextAfterTrace(t) ==
    CASE pc[t] = "trace_ps" -> "markRunning"
      [] pc[t] = "trace_ca" -> "orch"
      [] pc[t] = "orch" -> "orch"
      [] pc[t] = "trace_err" -> "catchUpdate"
      [] pc[t] = "trace_rg" -> IF response[t].cost > 0 THEN "trackCost" ELSE "getOrg"
      [] OTHER -> "unreachable"

\* C6: a createDecisionTrace failure inside traceDecision is swallowed.  The
\* step in which the persist fails takes the pipeline to the same next await
\* as a persisted trace does, raises nothing into the pipeline (the only
\* throw is the one executeTask makes itself after the error_handling trace),
\* and changes no Run status, message, response, cost or usage record.
C6_TraceFailureSwallowed ==
    [][\A t \in RunIds :
          lostTraces'[t] > lostTraces[t] =>
              /\ pc'[t] = C6_NextAfterTrace(t)
              /\ thrown'[t] = (IF pc[t] = "trace_err" THEN "provider" ELSE thrown[t])
              /\ runStatus' = runStatus
              /\ messages' = messages
              /\ response' = response
              /\ costCalls' = costCalls
              /\ usageRecords' = usageRecords]_vars

\* C6 witness: a run that lost a trace went on to complete
C6_Witness ==
    \E t \in RunIds :
        /\ lostTraces[t] > 0
        /\ Finished(t)
        /\ thrown[t] = "none"
        /\ runStatus[t] = "completed"

\* C7: fault isolation.  Once a task's pipeline has thrown and its catch
\* handler has run, even one whose own status write threw, the dispatcher is
\* still running, the slot is released, and a waiting task has a dispatch
\* pending.
C7_DispatcherSurvivesFailure ==
    \A t \in RunIds :
        (Finished(t) /\ thrown[t] # "none") =>
            /\ ~crashed
            /\ (processing => activeCount > 0)
            /\ (queue # <<>> /\ ~processing => timers > 0)

C9_Exhausted(t) == Finished(t) /\ response[t].returned /\ ~response[t].success

C10_TrackCostAfterCompletion ==
    [][\A t \in RunIds :
          costCalls'[t] # costCalls[t] =>
              /\ response[t].returned /\ response[t].success
              /\ runStatus[t] = "completed"
              /\ costCalls[t] = 0]_vars

\* C10 witness: trackCost was invoked for a run whose pipeline has ended
C10_Witness == \E t \in RunIds : costCalls[t] = 1 /\ Finished(t)

\* C11: no Run whose final persisted status is failed has had trackCost
\* invoked or a usage record written for it, whichever pipeline step failed.
C11_FailedRunHasNoCost ==
    \A t \in RunIds :
        (Finished(t) /\ runStatus[t] = "failed") =>
            costCalls[t] = 0 /\ usageRecords[t] = 0

\* the pipeline of t ran to its end and no collaborator call failed in it:
\* nothing was thrown and no trace persist was lost
C12_Undisturbed(t) == Finished(t) /\ thrown[t] = "none" /\ lostTraces[t] = 0

\* C12: when the primary succeeds on the first call (the orchestrator returns
\* success with attempts = 1 and never calls onAttempt) and no storage call
\* fails, in the pipeline or behind the cost tracker, the Run ends completed
\* with outputJson.usedProvider = the primary and attempts = 1, and its
\* persisted traces are exactly provider_selection, context_analysis,
\* response_generation with stepNumbers 1, 2, 3.
C12_ImmediateSuccess ==
    \A t \in RunIds :
        (/\ C12_Undisturbed(t)
         /\ response[t].success
         /\ response[t].attempts = 1
         /\ onAttempts[t] = <<>>) =>
            /\ runStatus[t] = "completed"
            /\ output[t] = [kind |-> "result", usedProvider |-> "primary", attempts |-> 1]
            /\ traces[t] = << [stepNumber |-> 1, stepType |-> "provider_selection"],
                              [stepNumber |-> 2, stepType |-> "context_analysis"],
                              [stepNumber |-> 3, stepType |-> "response_generation"] >>

\* C12 witness: a run whose primary succeeded on the first call has ended
\* completed, its cost tracked and its usage recorded
C12_Witness ==
    \E t \in RunIds :
        /\ C12_Undisturbed(t)
        /\ response[t].success
        /\ response[t].attempts = 1
        /\ onAttempts[t] = <<>>
        /\ runStatus[t] = "completed"
        /\ costCalls[t] = 1
        /\ usageRecords[t] = 1

\* positions of the retry and fallback traces of t
C13_AttemptTraces(t) == TracesOfType(t, "retry") \cup TracesOfType(t, "fallback")

\* the trace at position i of t is the one the k-th onAttempt call asked for
C13_TraceOf(t, k, i) ==
    /\ traces[t][i].stepNumber = onAttempts[t][k].stepNumber
    /\ traces[t][i].stepType = (IF onAttempts[t][k].nextProvider THEN "fallback" ELSE "retry")

\* warning log events emitted for t
C13_Warnings(t) == Cardinality({i \in 1..Len(logs[t]) : logs[t][i] = "warning"})

\* the retry and fallback traces of t are in invocation order, after the
\* context_analysis trace and before the response_generation or
\* error_handling trace
C13_InOrder(t) ==
    /\ \A i, j \in 1..Len(traces[t]) :
           i < j => traces[t][i].stepNumber < traces[t][j].stepNumber
    /\ \A k, l \in 1..Len(onAttempts[t]) :
           k < l => onAttempts[t][k].stepNumber < onAttempts[t][l].stepNumber
    /\ \A i \in C13_AttemptTraces(t) :
           /\ \A j \in TracesOfType(t, "provider_selection")
                         \cup TracesOfType(t, "context_analysis") : j < i
           /\ \A j \in TracesOfType(t, "response_generation")
                         \cup TracesOfType(t, "error_handling") : i < j

\* C13 as stated: every onAttempt call produces exactly one decision trace
\* (fallback when nextProvider is given, retry otherwise) and one warning
\* log event, and these traces are in invocation order between
\* context_analysis and response_generation or error_handling.
C13_EveryAttemptTraced ==
    \A t \in RunIds :
        /\ C13_Warnings(t) = Len(onAttempts[t])
        /\ Cardinality(C13_AttemptTraces(t)) = Len(onAttempts[t])
        /\ \A k \in 1..Len(onAttempts[t]) :
               \E i \in C13_AttemptTraces(t) : C13_TraceOf(t, k, i)
        /\ C13_InOrder(t)

\* C13 as amended: every onAttempt call emits one warning log event and
\* takes one step number; its trace is recorded, with that number and the
\* stepType of the call, unless the persist of that trace fails, and no
\* other retry or fallback trace exists.  The order is as stated.
C13_EveryAttemptTracedIfPersisted ==
    \A t \in RunIds :
        /\ C13_Warnings(t) = Len(onAttempts[t])
        /\ \A k \in 1..Len(onAttempts[t]) :
               Cardinality({i \in C13_AttemptTraces(t) : C13_TraceOf(t, k, i)})
                   = (IF onAttempts[t][k].persisted THEN 1 ELSE 0)
        /\ \A i \in C13_AttemptTraces(t) :
               \E k \in 1..Len(onAttempts[t]) : C13_TraceOf(t, k, i)
        /\ C13_InOrder(t)

\* C13 witness: the primary failed twice and then succeeded, and the run's
\* traces are provider_selection, context_analysis, retry, retry,
\* response_generation
C13_Witness ==
    \E t \in RunIds :
        /\ Finished(t)
        /\ response[t].success
        /\ Len(onAttempts[t]) = 2
        /\ ~FellBack(t)
        /\ [i \in 1..Len(traces[t]) |-> traces[t][i].stepType]
               = <<"provider_selection", "context_analysis", "retry", "retry",
                   "response_generation">>

\* C14: at pipeline start the Run is marked running, then the user message
\* is persisted, then the provider_selection trace is recorded, then the
\* context_analysis trace, then the orchestrator is invoked: no trace is
\* recorded while the Run is still queued or before the user message exists,
\* no message is persisted while the Run is still queued, and the
\* orchestrator is invoked only after both traces were issued.
C14_StartOrder ==
    \A t \in RunIds :
        /\ (traces[t] # <<>> \/ lostTraces[t] > 0) =>
               runStatus[t] # "queued" /\ HasMessage(t, "user")
        /\ HasMessage(t, "user") => runStatus[t] # "queued"
        /\ (pc[t] = "orch" \/ response[t].returned) => stepCounters[t] >= 2

\* the traceDecision calls of a successful pipeline are provider_selection,
\* context_analysis, one per onAttempt call, and response_generation: the
\* last one has been made when the counter has passed them all
C15_ResponseTraced(t) == response[t].success /\ stepCounters[t] = Len(onAttempts[t]) + 3

\* none of the effects that follow the response_generation trace has happened for t
C15_NothingAfterTrace(t) ==
    /\ costCalls[t] = 0
    /\ usageRecords[t] = 0
    /\ ~HasLog(t, "success")
    /\ auditLogs[t] = 0

\* C15: on orchestrator success the effects happen in the order assistant
\* message, Run completed, response_generation trace, trackCost, usage
\* record, success log, audit entry.  Each effect, in the step it happens,
\* finds the effects listed before it done (trackCost whenever the cost is
\* positive) and those listed after it not yet done.
C15_SuccessOrder ==
    [][\A t \in RunIds :
          /\ (HasMessage(t, "assistant")' /\ ~HasMessage(t, "assistant")) =>
                 /\ runStatus[t] # "completed"
                 /\ ~C15_ResponseTraced(t)
                 /\ C15_NothingAfterTrace(t)
          /\ (runStatus'[t] = "completed" /\ runStatus[t] # "completed") =>
                 /\ HasMessage(t, "assistant")
                 /\ ~C15_ResponseTraced(t)
                 /\ C15_NothingAfterTrace(t)
          /\ (C15_ResponseTraced(t)' /\ ~C15_ResponseTraced(t)) =>
                 /\ HasMessage(t, "assistant")
                 /\ runStatus[t] = "completed"
                 /\ C15_NothingAfterTrace(t)
          /\ costCalls'[t] # costCalls[t] =>
                 /\ runStatus[t] = "completed"
                 /\ C15_ResponseTraced(t)
                 /\ usageRecords[t] = 0 /\ ~HasLog(t, "success") /\ auditLogs[t] = 0
          /\ usageRecords'[t] # usageRecords[t] =>
                 /\ runStatus[t] = "completed"
                 /\ C15_ResponseTraced(t)
                 /\ (response[t].cost > 0 => costCalls[t] = 1)
                 /\ ~HasLog(t, "success") /\ auditLogs[t] = 0
          /\ (HasLog(t, "success")' /\ ~HasLog(t, "success")) =>
                 /\ runStatus[t] = "completed"
                 /\ C15_ResponseTraced(t)
                 /\ (response[t].cost > 0 => costCalls[t] = 1)
                 /\ auditLogs[t] = 0
          /\ auditLogs'[t] # auditLogs[t] =>
                 /\ runStatus[t] = "completed"
                 /\ C15_ResponseTraced(t)
                 /\ (response[t].cost > 0 => costCalls[t] = 1)
                 /\ HasLog(t, "success")]_vars

\* C15 witness: a run went through all seven success effects
C15_Witness ==
    \E t \in RunIds :
        /\ Finished(t)
        /\ HasMessage(t, "assistant")
        /\ runStatus[t] = "completed"
        /\ TracesOfType(t, "response_generation") # {}
        /\ costCalls[t] = 1
        /\ usageRecords[t] = 1
        /\ HasLog(t, "success")
        /\ auditLogs[t] = 1

\* C16 (SpecQueue): the dispatcher is work-conserving.  Whenever the backlog
\* is non-empty, N = 2 pipelines are active or the dispatch check that
\* follows a completion is pending; so a task enqueued while one pipeline
\* is running is not left in the backlog.
C16_WorkConserving ==
    queue # <<>> => (activeCount >= concurrency \/ timers > 0)

\* positions of the terminal log events (success or error) of t
C17_TerminalLogs(t) == {i \in 1..Len(logs[t]) : logs[t][i] \in {"success", "error"}}

\* C17: the log stream of a run ends at its terminal event.  No log event
\* follows a success or error event, and a pipeline execution that has ended
\* emitted exactly one terminal event, as its last log event.
C17_LogStreamEndsAtTerminal ==
    \A t \in RunIds :
        /\ \A i \in C17_TerminalLogs(t) : i = Len(logs[t])
        /\ Finished(t) => Cardinality(C17_TerminalLogs(t)) = 1

\* C18: every enqueue the routes issue follows the persist of a Run with
\* the task's runId and status queued: a task enters the queue only in a
\* step that answers 200 and leaves its Run persisted as queued; a
\* submission answered 400 or 404 (validation, organization, project lookup
\* or storage failure) or turned away by the budget check creates no Run and
\* enqueues nothing, and neither does any other request.
C18_RunPersistedBeforeEnqueue ==
    [][/\ \A t \in RunIds :
              (pc[t] = "idle" /\ pc'[t] # "idle") =>
                  /\ runStatus[t] = "none"
                  /\ runStatus'[t] = "queued"
                  /\ lastResponse' = 200
       /\ (runsLeft' # runsLeft /\ lastResponse' # 200) =>
              /\ lastResponse' \in {400, 404, BudgetExceededStatus}
              /\ UNCHANGED <<runStatus, nextRun, queue, pc, started, logs, activeCount>>
      ]_vars

\* C18 witness: of two submissions the first was accepted, its task admitted
\* with its Run found, and the second failed the project lookup
C18_Witness ==
    /\ runsLeft = 0
    /\ nextRun = 2
    /\ lastResponse = 404
    /\ pc[1] \notin {"idle", "queued", "getRun"}
    /\ runStatus[1] # "none"

\* C19 (SpecAdapter): call(prompt, model) of every adapter getProviderAdapter
\* returns never throws or rejects; every call ends with a response that is
\* a success or carries success = false and an error.
C19_AdapterNeverThrows ==
    \A i \in 1..Len(adapterResults) :
        LET r == adapterResults[i] IN
        r.adapter # "Base" => (~r.threw /\ (r.success \/ r.error # "none"))

\* the adapters constructed from an API key
C20_KeyBased == {"Base", "Groq"} \cup FetchAdapters

\* C20 (SpecAdapter): a call on a key-based adapter whose API key is not
\* configured returns success = false with a "not configured" error, makes
\* no external request and does not throw.
C20_MissingKeyNotConfigured ==
    \A i \in 1..Len(adapterResults) :
        LET r == adapterResults[i] IN
        (r.adapter \in C20_KeyBased /\ ~r.hasKey) =>
            /\ ~r.threw
            /\ ~r.success
            /\ r.error = "not configured"
            /\ r.requests = 0

\* slot c starts an adapter call to provider p in this step
CallStarts(c, p) ==
    /\ callers[c].at # "calling"
    /\ callers'[c].at = "calling"
    /\ Chain[callers'[c].idx] = p

\* C21: while the circuit of provider P is open and its cooldown has not
\* elapsed, no invocation starts an adapter call to P; a call that finds the
\* circuit open after the cooldown is the half-open trial, and while that
\* trial is given out no other invocation starts a call to P.
C21_OpenCircuitNotCalled ==
    [][\A c \in Slots, p \in CircuitProviders :
          CallStarts(c, p) =>
              /\ ~(circuits[p].state = "open" /\ now < circuits[p].cooldownUntil)
              /\ circuits[p].state # "half-open"
              /\ circuits[p].state = "open" =>
                     /\ circuits'[p].state = "half-open"
                     /\ callers'[c].trial]_vars

\* One invocation makes the half-open trial call while the other, turning to
\* the same provider, is refused and falls back.
C21_Witness ==
    \E c, d \in Slots, p \in CircuitProviders :
        /\ c # d
        /\ circuits[p].state = "half-open"
        /\ callers[c].at = "calling" /\ callers[c].trial /\ Chain[callers[c].idx] = p
        /\ callers[d].outcome[p] = "half-open"
        /\ callers[d].calls[p] = 0

\* slot c's half-open trial call to provider p returns in this step
TrialReturns(c, p, success) ==
    /\ callers[c].at = "calling"
    /\ callers[c].trial
    /\ Chain[callers[c].idx] = p
    /\ CallReturns(c, success)

\* the transitions of the circuit state machine, for provider p in this step
C22_Opens(p) ==
    /\ circuits[p].state = "closed" /\ circuits'[p].state = "open"
    /\ circuits[p].consecutiveFailures < FailureThreshold
    /\ circuits'[p].consecutiveFailures = FailureThreshold
C22_HalfOpens(p) ==
    /\ circuits[p].state = "open" /\ circuits'[p].state = "half-open"
    /\ now >= circuits[p].cooldownUntil
C22_Closes(p) ==
    /\ circuits[p].state = "half-open" /\ circuits'[p].state = "closed"
    /\ circuits'[p].consecutiveFailures = 0
    /\ \E c \in Slots : TrialReturns(c, p, TRUE)
C22_Reopens(p) ==
    /\ circuits[p].state = "half-open" /\ circuits'[p].state = "open"
    /\ circuits'[p].cooldownUntil > circuits[p].cooldownUntil
    /\ \E c \in Slots : TrialReturns(c, p, FALSE)
C22_IsReset(p) ==
    /\ lastAdmin'.route = "reset"
    /\ lastAdmin'.target \in {p, "all"}
    /\ circuits'[p] = ClosedCircuit

\* C22 (as claimed): a circuit changes state only closed -> open on reaching
\* the failure threshold, open -> half-open after cooldownUntil, half-open ->
\* closed with zero failures on a successful trial, half-open -> open with a
\* later cooldownUntil on a failed trial.
C22_OnlyTheseTransitions ==
    [][\A p \in CircuitProviders :
          circuits'[p].state # circuits[p].state =>
              C22_Opens(p) \/ C22_HalfOpens(p) \/ C22_Closes(p) \/ C22_Reopens(p)]_vars

\* C22 (amended): the same, but for resetCircuit and resetAllCircuits, which
\* force a circuit closed from any state.
C22_TransitionsOrReset ==
    [][\A p \in CircuitProviders :
          circuits'[p].state # circuits[p].state =>
              \/ C22_Opens(p) \/ C22_HalfOpens(p) \/ C22_Closes(p) \/ C22_Reopens(p)
              \/ C22_IsReset(p)]_vars

\* A half-open trial has just failed: the circuit is open again and its
\* cooldown runs.
C22_Witness ==
    \E c \in Slots, p \in CircuitProviders :
        /\ callers[c].trial
        /\ callers[c].at = "callback"
        /\ Chain[callers[c].idx] = p
        /\ circuits[p].state = "open"
        /\ circuits[p].cooldownUntil > now
        /\ circuits[p].cooldownUntil > CooldownTicks

C24_BeforeFallback(c) ==
    {i \in 1..Len(callbacks[c]) : callbacks[c][i].fallbackCalls = 0}

\* the traces those callbacks recorded, by step type
C24_Recorded(c, stepType) ==
    {i \in C24_BeforeFallback(c) :
        callbacks[c][i].persisted /\ callbacks[c][i].stepType = stepType}

\* C24 (as claimed): an invocation that finds its primary provider's circuit
\* open makes no call to the primary; before its first call to the secondary
\* exactly one "fallback" trace and no "retry" trace is recorded; and the
\* secondary is the usedProvider when it succeeds.
C24_OpenPrimarySkipped ==
    \A c \in Slots :
        callers[c].found \in {"cooling", "elapsed"} =>
            /\ callers[c].calls[Chain[1]] = 0
            /\ callers[c].calls[Chain[2]] > 0 =>
                   /\ Cardinality(C24_Recorded(c, "fallback")) = 1
                   /\ C24_Recorded(c, "retry") = {}
            /\ (callers[c].at = "done" /\ callers[c].success) =>
                   callers[c].usedProvider = Chain[2]

\* C24 (amended): an invocation that finds its primary provider's circuit
\* open with the cooldown running makes no call to the primary; before its
\* first call to the secondary it makes exactly one onAttempt callback, with
\* nextProvider set, whose "fallback" trace is recorded unless it fails to
\* persist, and no "retry" trace; the secondary is the usedProvider when it
\* succeeds.
C24_CoolingPrimarySkipped ==
    \A c \in Slots :
        callers[c].found = "cooling" =>
            /\ callers[c].calls[Chain[1]] = 0
            /\ callers[c].calls[Chain[2]] > 0 =>
                   /\ Cardinality(C24_BeforeFallback(c)) = 1
                   /\ \A i \in C24_BeforeFallback(c) :
                          /\ callbacks[c][i].nextProvider
                          /\ callbacks[c][i].stepType = "fallback"
                   /\ C24_Recorded(c, "retry") = {}
            /\ (callers[c].at = "done" /\ callers[c].success) =>
                   callers[c].usedProvider = Chain[2]

\* An invocation found the primary cooling down, recorded its fallback trace
\* and got its answer from the secondary.
C24_Witness ==
    \E c \in Slots :
        /\ callers[c].found = "cooling"
        /\ callers[c].at = "done" /\ callers[c].success
        /\ callers[c].usedProvider = Chain[2]
        /\ Cardinality(C24_Recorded(c, "fallback")) = 1

\* callWithRetry is running in slot c
C25_Running(c) == callers[c].at \in {"calling", "callback", "backoff"}

\* C25: callWithRetry always terminates; the calls it makes to one provider
\* never exceed the retry count, each provider of the chain having its own
\* budget; and it returns success = false only when every provider of the
\* chain has used up its budget or was skipped for its circuit.
C25_BoundedAndTerminates ==
    /\ [](\A c \in Slots :
            /\ \A p \in CircuitProviders : callers[c].calls[p] <= RetryCount
            /\ (callers[c].at = "done" /\ ~callers[c].success) =>
                   \A p \in CircuitProviders :
                       \/ callers[c].calls[p] = RetryCount
                             /\ callers[c].outcome[p] = "exhausted"
                       \/ callers[c].outcome[p] \in {"open", "half-open"})
    /\ \A c \in Slots : C25_Running(c) ~> callers[c].at = "done"

\* An invocation failed after using the whole budget of both providers.
C25_Witness ==
    \E c \in Slots :
        /\ callers[c].at = "done" /\ ~callers[c].success
        /\ \A p \in CircuitProviders : callers[c].calls[p] = RetryCount

\* C26: getCircuitStatus, resetCircuit and resetAllCircuits are reached only
\* by an authenticated owner or admin: a request from anyone else is given no
\* circuit status and resets no circuit.
C26_AdminOnly ==
    (lastAdmin.route # "none" /\ lastAdmin.role \notin {"owner", "admin"}) =>
        /\ lastAdmin.report = {}
        /\ lastAdmin.target = "none"

\* C27: a run whose cancellation was requested while it was queued is never
\* handed to a provider (callWithRetry never returns for it) and is never
\* marked completed: it is cancelled at the next checkpoint.
C27_CancelTakesEffect ==
    \A t \in RunIds :
        cancelRequested[t] = "queued" =>
            /\ ~response[t].returned
            /\ runStatus[t] # "completed"

\* C28: no task is enqueued for an organisation whose budget is exceeded.
C28_NoRunOverBudget ==
    \A t \in RunIds : pc[t] # "idle" => ~overBudget[t]

\* the transitions of a run's stored status the claim allows ("none": the
\* row does not exist yet, or was deleted)
C29_Allowed ==
    {<<"none", "queued">>, <<"queued", "running">>}
        \cup {<<"running", s>> : s \in Terminal}
        \cup {<<s, "none">> : s \in {"queued", "running"} \cup Terminal}

\* C29: a run's status only moves queued -> running -> {completed, failed,
\* cancelled}: no terminal status is written for a run that was not marked
\* running, and nothing is written over a terminal status.
C29_StatusOrder ==
    [][\A t \in RunIds :
          runStatus'[t] # runStatus[t] =>
              <<runStatus[t], runStatus'[t]>> \in C29_Allowed]_vars

\* the pipeline of run t got its answer from the provider
C30_Succeeded(t) == response[t].returned /\ response[t].success

\* C30 (as claimed): a pipeline that ran to its end without a throw after
\* the orchestrator returned success has invoked trackCost exactly once,
\* whatever the returned cost.
C30_TrackedExactlyOnce ==
    \A t \in RunIds :
        (Finished(t) /\ C30_Succeeded(t) /\ thrown[t] = "none") => costCalls[t] = 1

\* C30 (amended): trackCost is invoked at most once per pipeline, and only
\* after the orchestrator returned success with a positive cost; it is
\* invoked exactly once when the cost is positive and no other step of the
\* pipeline throws, and not at all for a zero cost or absent usage.
C30_TrackedOnceIfPositive ==
    \A t \in RunIds :
        /\ costCalls[t] <= 1
        /\ costCalls[t] = 1 => C30_Succeeded(t) /\ response[t].cost > 0
        /\ (Finished(t) /\ C30_Succeeded(t) /\ response[t].cost > 0
               /\ thrown[t] \in {"none", "cost"}) => costCalls[t] = 1

\* One run completed at zero cost without a trackCost call; another, at a
\* positive cost, with one.
C30_Witness ==
    \E t, u \in RunIds :
        /\ Finished(t) /\ C30_Succeeded(t) /\ response[t].cost = 0
        /\ runStatus[t] = "completed" /\ costCalls[t] = 0
        /\ Finished(u) /\ C30_Succeeded(u) /\ response[u].cost > 0
        /\ runStatus[u] = "completed" /\ costCalls[u] = 1


\* ---------------------------------------------------------------- C31

\* C31: every run that ended with status completed has exactly one usage
\* record, and the record names the provider that answered (usedProvider).
C31_OneUsageRecord ==
    \A t \in RunIds :
        (Finished(t) /\ runStatus[t] = "completed")
            => /\ usageRecords[t] = 1
               /\ usageProvider[t] = response[t].usedProvider

\* ---------------------------------------------------------------- C32

\* the pipeline of task t is executing: admitted and not yet through the
\* finally block
C32_Executing(t) == pc[t] \notin {"idle", "queued", "done"}

\* C32: at most one pipeline executes at any time.  The processing flag is
\* true exactly while a pipeline is executing, activeCount is always 0 or 1,
\* and processing holds if and only if activeCount = 1, although the
\* concurrency field is 2.
C32_OnePipelineAtATime ==
    /\ Cardinality({t \in RunIds : C32_Executing(t)}) <= 1
    /\ processing <=> (\E t \in RunIds : C32_Executing(t))
    /\ activeCount \in {0, 1}
    /\ processing <=> (activeCount = 1)
    /\ concurrency = 2

\* C32 witness: one pipeline executes while two tasks wait in the backlog,
\* after an earlier pipeline has completed
C32_Witness ==
    /\ processing /\ activeCount = 1
    /\ Len(queue) >= 2
    /\ \E t \in RunIds : C32_Executing(t)
    /\ \E t \in RunIds : Finished(t)

\* ---------------------------------------------------------------- C33

\* C33: no task is stranded.  In every reachable state where the backlog is
\* non-empty and no pipeline is executing, a dispatch is pending: the 100 ms
\* re-dispatch timer is armed (a synchronous processQueue call is part of
\* the step that makes it).
C33_NoTaskStranded ==
    (queue # <<>> /\ ~(\E t \in RunIds : C32_Executing(t))) => timers > 0

\* C33 witness: the second pipeline has ended, no pipeline is executing, and
\* the re-dispatch timer is armed for the two tasks that wait
C33_Witness ==
    /\ Len(queue) >= 2 /\ timers > 0
    /\ ~processing
    /\ Len(started) >= 2
    /\ \A i \in 1..Len(started) : Finished(started[i])

\* ---------------------------------------------------------------- C34

\* how many times task t occurs in the sequence s
C34_Count(s, t) == Cardinality({i \in 1..Len(s) : s[i] = t})

\* C34: every enqueued task is admitted to execution exactly once.  An
\* enqueued task is either waiting in the backlog (once, and never admitted)
\* or out of the backlog with its pipeline started exactly once; a task
\* leaves the backlog only in the step that starts its pipeline.
C34_AdmittedExactlyOnce ==
    \A t \in RunIds :
        /\ pc[t] = "idle" => C34_Count(queue, t) = 0 /\ C34_Count(started, t) = 0
        /\ pc[t] = "queued" => C34_Count(queue, t) = 1 /\ C34_Count(started, t) = 0
        /\ pc[t] \notin {"idle", "queued"}
               => C34_Count(queue, t) = 0 /\ C34_Count(started, t) = 1

\* C34 witness: enqueue calls, completions and re-dispatch timers have
\* interleaved: three tasks have been admitted, two of them from the backlog,
\* one pipeline is executing and one task still waits
C34_Witness ==
    /\ Len(started) = 3
    /\ Len(queue) = 1
    /\ \E t \in RunIds : C32_Executing(t)
    /\ \E t \in RunIds : Finished(t) /\ t > 1

\* ---------------------------------------------------------------- C35

\* the pipeline of task t looked its run up and storage had no such row
C35_NotFound(t) == pc[t] \notin {"idle", "queued", "getRun"} /\ runStatus[t] = "none"

\* C35: if the Run cannot be found when a task starts executing, no decision
\* trace is recorded (nor attempted), no message is persisted, the
\* orchestrator is not called and trackCost is not invoked; an error log
\* event is emitted for the runId, the pipeline goes straight to the catch
\* block, and the step that ends it releases the task's slot.
C35_RunNotFound ==
    /\ [](\A t \in RunIds :
            C35_NotFound(t) =>
                /\ traces[t] = <<>> /\ lostTraces[t] = 0
                /\ messages[t] = <<>>
                /\ ~response[t].returned /\ onAttempts[t] = <<>>
                /\ costCalls[t] = 0
                /\ HasLog(t, "error")
                /\ pc[t] \in {"catchUpdate", "done"})
    /\ [][\A t \in RunIds :
            (C35_NotFound(t) /\ pc[t] = "catchUpdate" /\ pc'[t] = "done")
                => activeCount' = activeCount - 1 /\ processing' = FALSE]_vars

\* C35 witness: a pipeline ended on a missing Run, and the slot it released
\* is in use by the next task
C35_Witness ==
    \E t, u \in RunIds :
        /\ C35_NotFound(t) /\ Finished(t) /\ thrown[t] = "notfound"
        /\ HasLog(t, "error")
        /\ u # t /\ C32_Executing(u) /\ activeCount = 1

\* ---------------------------------------------------------------- C36

\* C36: log delivery is keyed by runId.  A connection that is open and is
\* the most recently opened one for its run is the one registered for the
\* run, and it has received every log event emitted for the run since (it
\* missed none: closing an earlier connection for the run does not unregister
\* it); no connection was ever written an event of another run.
C36_KeyedDelivery ==
    \A c \in 1..Len(connections) :
        /\ IsLatestOpen(c) => sseConnections[connections[c].runId] = c
        /\ connections[c].missed = 0
        /\ connections[c].foreign = 0

\* ---------------------------------------------------------------- C37

\* the model calls attemptAutoFix made for the failure being handled (the
\* diagnosis call belongs to diagnoseFailure)
C37_FixCalls == SelectSeq(fix.calls, LAMBDA p : p # "diagnosis")

\* a level returned a result that is not a success
C37_Failed(r) == r.kind = "result" /\ ~r.success

\* C37: attemptAutoFix escalates strictly in the order Gemini, Groq,
\* structured issue.  Groq is called only after the Gemini attempt failed;
\* the issue is created, and issueUrl is present in the result, only when
\* both levels failed; a result has escalated = true exactly when the Groq
\* level was attempted; and no model is called when canAutoFix is false or
\* fixDifficulty is hard.
C37_EscalatesInOrder ==
    LET groq == Len(C37_FixCalls) = 2
        bothFailed == C37_Failed(fix.level1) /\ C37_Failed(fix.level2)
    IN  /\ C37_FixCalls \in {<<>>, <<"gemini">>, <<"gemini", "groq">>}
        /\ groq => C37_Failed(fix.level1)
        /\ (fix.at = "issue" \/ "issue_created" \in {fix.audits[i] : i \in 1..Len(fix.audits)})
               => groq /\ bothFailed
        /\ fix.result.kind = "result" => (fix.result.escalated <=> groq)
        /\ fix.result.issueUrl => groq /\ bothFailed
        /\ (fix.at # "idle" /\ (~fix.canAutoFix \/ fix.fixDifficulty = "hard"))
               => C37_FixCalls = <<>>

\* C37 witness: a second failure was handled through all three levels and
\* ended with the issue
C37_Witness ==
    /\ fixesLeft = 0
    /\ fix.at = "done" /\ fix.result.issueUrl /\ fix.result.escalated
    /\ C37_FixCalls = <<"gemini", "groq">>
    /\ fix.audits = <<"auto_fix_attempt", "issue_created">>

====
